---- MODULE Spec2Model ----
(***************************************************************************)
(* The scope-stack symbol table of the cirrus front end                    *)
(* (src/src/semantic/symbol.py) and the semantic analyzer that drives it   *)
(* (src/src/frontend/semantic/analyzer.py, statements.py, expressions.py). *)
(*                                                                         *)
(* SpecTable drives the symbol table through arbitrary sequences of its    *)
(* public operations.  Spec runs the analyzer over programs that are       *)
(* produced statement by statement: the analyzer is a single top-to-bottom *)
(* pass, so its recursion over the tree is unfolded into one step per      *)
(* statement and one step per opening and closing of a block construct,    *)
(* with the Python call stack kept in `frames`.                            *)
(***************************************************************************)
EXTENDS Integers, Sequences, FiniteSets, TLC

VARIABLES
    scopes,     \* SymbolTable.scopes: the stack of Scope objects, bottom first
    nextId,     \* SpecTable: number of Scope objects constructed so far (object identity)
    ops,        \* number of symbol-table operations called from outside so far
    call,       \* the last symbol-table operation called from outside and its outcome
    reachLog,   \* history: is_reachable() as it was when each scope above the bottom was pushed
    frames,     \* the analyzer's call stack: one frame per block construct being analyzed
    status,     \* "init", "running", "done", or the diagnostic that aborted the pass
    last,       \* the step the analyzer took last: its name, and the name or expression in it
    fnRet,      \* FunctionType.return_type of each FunctionDeclaration node (mutable)
    input,      \* the arguments of a function called on its own
    output      \* <<>>, or <<r>> once that function has returned or raised r

vars == <<scopes, nextId, ops, call, reachLog, frames, status, last, fnRet, input, output>>
pureVars == <<input, output>>

----------------------------------------------------------------------------
(* Bounds of the model *)

\* symbol-table operations in one run of SpecTable
MaxOps == 6
\* depth of the scope stack
MaxDepth == 5
\* function declarations in one program
MaxFns == 1

----------------------------------------------------------------------------
(* Data *)

Names == {"x", "y", "f"}

NoType == "none"
NoSymbol == [name |-> "", var_type |-> NoType, owner |-> -1]

\* the kinds of node that open a scope, as tested with isinstance
LoopKinds == {"WhileStatement", "RangeStatement", "EachStatement"}
NodeKinds == LoopKinds \cup {"None", "IfStatement", "FunctionDeclaration", "FunctionLiteral"}

NoNode == [kind |-> "None", fn |-> 0]

Node(kind, fn) == [kind |-> kind, fn |-> fn]

\* Scope.__init__: no symbols, the node that opened it, reachable
Scope(id, parent_node) ==
    [id |-> id, symbols |-> [n \in Names |-> NoType],
     parent_node |-> parent_node, reachable |-> TRUE]

\* a Symbol object: its identity is the scope that holds it and its name
Symbol(scope, name) ==
    [name |-> name, var_type |-> scope.symbols[name], owner |-> scope.id]

Top(s) == s[Len(s)]

----------------------------------------------------------------------------
(* The symbol table: pure functions of the scope stack *)

\* SymbolTable.enter_scope
enter_scope(s, id, parent_node) == Append(s, Scope(id, parent_node))

\* SymbolTable.exit_scope: pops when more than one scope is on the stack
exit_scope_pops_always(s) == TRUE
exit_scope_ok(s) == Len(s) > 1
exit_scope(s) == IF exit_scope_ok(s) THEN SubSeq(s, 1, Len(s) - 1) ELSE s

\* SymbolTable.define: KeyError when the name is a key of the current scope
define_checks_all_scopes(s, name) == \A i \in 1..Len(s) : s[i].symbols[name] = NoType
define_ok(s, name) == Top(s).symbols[name] = NoType
define(s, name, var_type) ==
    IF define_ok(s, name)
    THEN [s EXCEPT ![Len(s)].symbols[name] = var_type]
    ELSE s

\* the isinstance test of lookup and get_current_function_type
IsFunctionDeclaration(sc) == sc.parent_node.kind = "FunctionDeclaration"

\* SymbolTable.lookup: for scope in reversed(self.scopes), from index i down
RECURSIVE lookup_from(_, _, _, _)
lookup_breaks_first(s, i, name, limit_to_function) ==
    IF i = 0 THEN NoSymbol
    ELSE IF limit_to_function /\ IsFunctionDeclaration(s[i]) THEN NoSymbol
    ELSE IF s[i].symbols[name] # NoType THEN Symbol(s[i], name)
    ELSE lookup_from(s, i - 1, name, limit_to_function)
lookup_from(s, i, name, limit_to_function) ==
    IF i = 0 THEN NoSymbol
    ELSE IF s[i].symbols[name] # NoType THEN Symbol(s[i], name)
    ELSE IF limit_to_function /\ IsFunctionDeclaration(s[i]) THEN NoSymbol
    ELSE lookup_from(s, i - 1, name, limit_to_function)

lookup(s, name, limit_to_function) == lookup_from(s, Len(s), name, limit_to_function)

\* SymbolTable.get_scope: the index of the innermost scope holding this Symbol
\* object (0 for None); `symbol in scope.symbols.values()` compares identities
RECURSIVE get_scope_from(_, _, _)
get_scope_from(s, i, symbol) ==
    IF i = 0 THEN 0
    ELSE IF \E n \in Names : s[i].symbols[n] # NoType /\ Symbol(s[i], n) = symbol THEN i
    ELSE get_scope_from(s, i - 1, symbol)

get_scope(s, symbol) == get_scope_from(s, Len(s), symbol)

\* SymbolTable.get_current_function_type: the fn index of the nearest
\* FunctionDeclaration scope, 0 for None
RECURSIVE get_current_function_type_from(_, _)
get_current_function_type_from(s, i) ==
    IF i = 0 THEN 0
    ELSE IF IsFunctionDeclaration(s[i]) THEN s[i].parent_node.fn
    ELSE get_current_function_type_from(s, i - 1)

get_current_function_type(s) == get_current_function_type_from(s, Len(s))

\* SymbolTable.is_loop_scope
RECURSIVE is_loop_scope_from(_, _)
is_loop_scope_any_loop(s, i) == \E j \in 1..i : s[j].parent_node.kind \in LoopKinds
is_loop_scope_from(s, i) ==
    IF i = 0 THEN FALSE
    ELSE IF s[i].parent_node.kind # "None" /\ IsFunctionDeclaration(s[i]) THEN FALSE
    ELSE IF s[i].parent_node.kind # "None" /\ s[i].parent_node.kind \in LoopKinds THEN TRUE
    ELSE is_loop_scope_from(s, i - 1)

is_loop_scope(s) == is_loop_scope_from(s, Len(s))

\* SymbolTable.is_reachable
RECURSIVE is_reachable_from(_, _)
is_reachable_top_only(s, i) == i = 0 \/ s[i].reachable
is_reachable_from(s, i) ==
    IF i = 0 THEN TRUE
    ELSE IF ~s[i].reachable THEN FALSE
    ELSE is_reachable_from(s, i - 1)

is_reachable(s) == is_reachable_from(s, Len(s))

\* SymbolTable.set_unreachable
set_unreachable_all(s) == [i \in 1..Len(s) |-> [s[i] EXCEPT !.reachable = FALSE]]
set_unreachable(s) == [s EXCEPT ![Len(s)].reachable = FALSE]

----------------------------------------------------------------------------
(* Initial state: SymbolTable.__init__ and SemanticAnalyzer.__init__ *)

\* `popped` is the reachable flag of the scope an exit_scope call removed
NoCall == [op |-> "none", name |-> "", var_type |-> NoType, error |-> "none",
           popped |-> TRUE]
NoStmt == [op |-> "none", arg |-> ""]

\* a fresh SymbolTable and SemanticAnalyzer
Fresh ==
    /\ scopes = <<Scope(0, NoNode)>>
    /\ nextId = 1
    /\ ops = 0
    /\ call = NoCall
    /\ reachLog = <<>>
    /\ frames = <<>>
    /\ status = "init"
    /\ last = NoStmt
    /\ fnRet = [k \in 1..MaxFns |-> "none"]

Init == Fresh /\ input = <<>> /\ output = <<>>

analyzerVars == <<frames, status, last, fnRet>>

----------------------------------------------------------------------------
(* The symbol table driven from outside, one operation per step *)

\* nodes a caller may hand to enter_scope
TableNodes ==
    {NoNode, Node("WhileStatement", 0), Node("FunctionDeclaration", 1),
     Node("FunctionLiteral", 0)}

EnterScope(parent_node) ==
    /\ ops < MaxOps
    /\ ops' = ops + 1
    /\ scopes' = enter_scope(scopes, nextId, parent_node)
    /\ nextId' = nextId + 1
    /\ reachLog' = Append(reachLog, is_reachable(scopes))
    /\ call' = [NoCall EXCEPT !.op = "enter_scope"]
    /\ UNCHANGED <<analyzerVars, pureVars>>

ExitScope ==
    /\ ops < MaxOps
    /\ ops' = ops + 1
    /\ scopes' = exit_scope(scopes)
    /\ reachLog' = IF exit_scope_ok(scopes) THEN SubSeq(reachLog, 1, Len(reachLog) - 1)
                   ELSE reachLog
    /\ call' = [NoCall EXCEPT !.op = "exit_scope",
                              !.error = IF exit_scope_ok(scopes) THEN "none" ELSE "IndexError",
                              !.popped = Top(scopes).reachable]
    /\ UNCHANGED <<nextId, analyzerVars, pureVars>>

Define(name, var_type) ==
    /\ ops < MaxOps
    /\ ops' = ops + 1
    /\ scopes' = define(scopes, name, var_type)
    /\ call' = [NoCall EXCEPT !.op = "define", !.name = name, !.var_type = var_type,
                              !.error = IF define_ok(scopes, name) THEN "none" ELSE "KeyError"]
    /\ UNCHANGED <<nextId, reachLog, analyzerVars, pureVars>>

SetUnreachable ==
    /\ ops < MaxOps
    /\ ops' = ops + 1
    /\ scopes' = set_unreachable(scopes)
    /\ call' = [NoCall EXCEPT !.op = "set_unreachable"]
    /\ UNCHANGED <<nextId, reachLog, analyzerVars, pureVars>>

TableNext ==
    \/ \E parent_node \in TableNodes : EnterScope(parent_node)
    \/ ExitScope
    \/ \E name \in {"x", "y"}, var_type \in {"int"} : Define(name, var_type)
    \/ SetUnreachable

SpecTable == Init /\ [][TableNext]_vars

----------------------------------------------------------------------------
(* The semantic analyzer: expressions *)

\* literal expressions, named by their type; an identifier is named by its name
Literals == {"int", "int[]"}
Exprs == Literals \cup {"x"}
\* `return;` has no expression
NoExpr == "void"

\* the outcome of analyzing an expression: a diagnostic or a type
Raise(error) == [error |-> error, type |-> NoType]
Type(t) == [error |-> "none", type |-> t]

\* ExpressionAnalyzer.analyze_identifier
analyze_identifier_unlimited(s, name) ==
    LET symbol == lookup(s, name, FALSE)
    IN  IF symbol = NoSymbol THEN Raise("NotDeclared") ELSE Type(symbol.var_type)
analyze_identifier(s, name) ==
    LET symbol == lookup(s, name, TRUE)
    IN  IF symbol = NoSymbol THEN Raise("NotDeclared") ELSE Type(symbol.var_type)

\* SemanticAnalyzer.analyze on a literal or an identifier (the caller has
\* checked is_reachable for the enclosing statement in the same state)
analyze_primary(s, e) ==
    IF e \in Names THEN analyze_identifier(s, e) ELSE Type(e)

\* the FunctionType object of the k-th function declaration: its param_types
\* (n parameters, all int) never change; its return_type is the cell fnRet[k]
FunctionType(k, n) == "func" \o ToString(k) \o "/" \o ToString(n)
\* parameters of one function have distinct names
Arities == 0..Cardinality(Names)
FunctionTypes == {FunctionType(k, n) : k \in 1..MaxFns, n \in Arities}
FnOf(t) == CHOOSE k \in 1..MaxFns : \E n \in Arities : t = FunctionType(k, n)
param_types(t) ==
    LET n == CHOOSE n \in Arities : \E k \in 1..MaxFns : t = FunctionType(k, n)
    IN  [i \in 1..n |-> "int"]

\* call expressions `callee(args)`, written as in the source text
Calls == {"f()", "f(int)", "f(string)", "f(y)", "f(y,int)"}
callee(e) == "f"
args(e) ==
    CASE e = "f()" -> <<>>
      [] e = "f(int)" -> <<"int">>
      [] e = "f(string)" -> <<"string">>
      [] e = "f(y)" -> <<"y">>
      [] OTHER -> <<"y", "int">>

\* the loop of analyze_function_call_expression over zip(args, param_types)
RECURSIVE analyze_arguments(_, _, _)
analyze_arguments(s, as, ps) ==
    IF as = <<>> \/ ps = <<>> THEN "none"
    ELSE LET arg_type == analyze_primary(s, Head(as))
         IN  IF arg_type.error # "none" THEN arg_type.error
             ELSE IF arg_type.type # Head(ps) THEN "ArgumentTypeMismatch"
             ELSE analyze_arguments(s, Tail(as), Tail(ps))

\* ExpressionAnalyzer.analyze_function_call_expression with an Identifier as
\* callee, bound (if to a function) to a declared function
analyze_function_call_expression_arguments_first(s, fr, e) ==
    LET symbol == lookup(s, callee(e), FALSE)
        function_type == symbol.var_type
        checked == analyze_arguments(s, args(e), param_types(function_type))
    IN  IF symbol = NoSymbol THEN Raise("FunctionNotDeclared")
        ELSE IF function_type \notin FunctionTypes THEN Raise("NotAFunction")
        ELSE IF checked # "none" THEN Raise(checked)
        ELSE IF Len(args(e)) # Len(param_types(function_type)) THEN Raise("ArityMismatch")
        ELSE Type(fr[FnOf(function_type)])
analyze_function_call_expression(s, fr, e) ==
    LET symbol == lookup(s, callee(e), FALSE)
        function_type == symbol.var_type
        checked == analyze_arguments(s, args(e), param_types(function_type))
    IN  IF symbol = NoSymbol THEN Raise("FunctionNotDeclared")
        ELSE IF function_type \notin FunctionTypes THEN Raise("NotAFunction")
        ELSE IF Len(args(e)) # Len(param_types(function_type)) THEN Raise("ArityMismatch")
        ELSE IF checked # "none" THEN Raise(checked)
        ELSE Type(fr[FnOf(function_type)])

\* SemanticAnalyzer.analyze on an expression: a call, or a literal or an
\* identifier
analyze_expression(s, fr, e) ==
    IF e \in Calls THEN analyze_function_call_expression(s, fr, e)
    ELSE analyze_primary(s, e)

\* ExpressionAnalyzer.analyze_index_expression on `array[index]`
analyze_index_expression(s, array, index) ==
    LET index_type == analyze_primary(s, index)
        array_type == analyze_primary(s, array)
    IN  IF index_type.error # "none" THEN index_type
        ELSE IF index_type.type # "int" THEN Raise("IndexNotInteger")
        ELSE IF array_type.error # "none" THEN array_type
        ELSE IF array_type.type # "int[]" THEN Raise("IndexingNonArray")
        ELSE Type("int")

\* ExpressionAnalyzer.analyze_assignment_expression, the left side analyzed
analyze_assignment_expression(s, fr, left_type, right) ==
    LET right_type == analyze_expression(s, fr, right)
    IN  IF left_type.error # "none" THEN left_type
        ELSE IF right_type.error # "none" THEN right_type
        ELSE IF left_type.type # right_type.type THEN Raise("TypeMismatch")
        ELSE left_type

----------------------------------------------------------------------------
(* The semantic analyzer: statements, as functions of the scope stack *)

\* what a handler leaves behind: the diagnostic it raised ("running" if
\* none), the scope stack and the function return types
Outcome(st, s, fr) == [status |-> st, scopes |-> s, fnRet |-> fr]

\* StatementAnalyzer.analyze_variable_declaration after the initializer; a
\* declared type that is a name is a CustomType
analyze_variable_declaration_unlimited(s, fr, name, var_type, init_type) ==
    LET existing_symbol == lookup(s, name, FALSE)
        template_symbol == lookup(s, var_type, FALSE)
        resolved == IF var_type = "infer" THEN init_type
                    ELSE IF var_type \in Names THEN template_symbol.var_type
                    ELSE var_type
    IN  IF existing_symbol # NoSymbol
        THEN IF get_scope(s, existing_symbol) = Len(s)
             THEN Outcome("Redeclare", s, fr)
             ELSE Outcome("Shadow", s, fr)
        ELSE IF var_type \in Names /\ template_symbol = NoSymbol
             THEN Outcome("TemplateNotFound", s, fr)
        ELSE IF resolved # init_type THEN Outcome("TypeMismatch", s, fr)
        ELSE IF ~define_ok(s, name) THEN Outcome("KeyError", s, fr)
        ELSE Outcome("running", define(s, name, resolved), fr)
analyze_variable_declaration_adopts_type(s, fr, name, var_type, init_type) ==
    LET existing_symbol == lookup(s, name, TRUE)
        template_symbol == lookup(s, var_type, FALSE)
        resolved == init_type
    IN  IF existing_symbol # NoSymbol
        THEN IF get_scope(s, existing_symbol) = Len(s)
             THEN Outcome("Redeclare", s, fr)
             ELSE Outcome("Shadow", s, fr)
        ELSE IF var_type \in Names /\ template_symbol = NoSymbol
             THEN Outcome("TemplateNotFound", s, fr)
        ELSE IF resolved # init_type THEN Outcome("TypeMismatch", s, fr)
        ELSE IF ~define_ok(s, name) THEN Outcome("KeyError", s, fr)
        ELSE Outcome("running", define(s, name, resolved), fr)
analyze_variable_declaration(s, fr, name, var_type, init_type) ==
    LET existing_symbol == lookup(s, name, TRUE)
        template_symbol == lookup(s, var_type, FALSE)
        resolved == IF var_type = "infer" THEN init_type
                    ELSE IF var_type \in Names THEN template_symbol.var_type
                    ELSE var_type
    IN  IF existing_symbol # NoSymbol
        THEN IF get_scope(s, existing_symbol) = Len(s)
             THEN Outcome("Redeclare", s, fr)
             ELSE Outcome("Shadow", s, fr)
        ELSE IF var_type \in Names /\ template_symbol = NoSymbol
             THEN Outcome("TemplateNotFound", s, fr)
        ELSE IF resolved # init_type THEN Outcome("TypeMismatch", s, fr)
        ELSE IF ~define_ok(s, name) THEN Outcome("KeyError", s, fr)
        ELSE Outcome("running", define(s, name, resolved), fr)

\* symbol_table.define for each parameter in turn (all of type int)
RECURSIVE define_params(_, _)
define_params(s, params) ==
    IF params = <<>> THEN [error |-> "none", scopes |-> s]
    ELSE IF ~define_ok(s, Head(params)) THEN [error |-> "KeyError", scopes |-> s]
    ELSE define_params(define(s, Head(params), "int"), Tail(params))

\* StatementAnalyzer.get_return_type
get_return_type_ignores_declared(s, fr, e) ==
    LET fn_type == get_current_function_type(s)
        return_type == IF e = NoExpr THEN Type("void") ELSE analyze_expression(s, fr, e)
    IN  IF fn_type = 0 THEN Outcome("ReturnOutsideFunction", s, fr)
        ELSE IF return_type.error # "none" THEN Outcome(return_type.error, s, fr)
        ELSE IF fr[fn_type] = "infer"
             THEN Outcome("running", s, [fr EXCEPT ![fn_type] = return_type.type])
        ELSE Outcome("running", s, fr)
get_return_type(s, fr, e) ==
    LET fn_type == get_current_function_type(s)
        return_type == IF e = NoExpr THEN Type("void") ELSE analyze_expression(s, fr, e)
    IN  IF fn_type = 0 THEN Outcome("ReturnOutsideFunction", s, fr)
        ELSE IF return_type.error # "none" THEN Outcome(return_type.error, s, fr)
        ELSE IF fr[fn_type] = "infer"
             THEN Outcome("running", s, [fr EXCEPT ![fn_type] = return_type.type])
        ELSE IF return_type.type # fr[fn_type]
             THEN Outcome("ReturnTypeMismatch", s, fr)
        ELSE Outcome("running", s, fr)

\* StatementAnalyzer.analyze_return_statement
analyze_return_statement(s, fr, e) ==
    LET o == get_return_type(s, fr, e)
    IN  IF o.status # "running" THEN o
        ELSE Outcome("running", set_unreachable(o.scopes), o.fnRet)

\* StatementAnalyzer.analyze_halt_statement and analyze_skip_statement
analyze_halt_statement(s, fr) ==
    IF ~is_loop_scope(s) THEN Outcome("NotInLoop", s, fr)
    ELSE Outcome("running", set_unreachable(s), fr)

\* the pre-pass of analyze_function_literal over the return statements that
\* are direct statements of the literal's body
RECURSIVE function_literal_returns(_, _, _)
function_literal_returns(s, fr, returns) ==
    IF returns = <<>> THEN Outcome("running", s, fr)
    ELSE LET o == get_return_type(s, fr, Head(returns))
         IN  IF o.status # "running" THEN o
             ELSE function_literal_returns(o.scopes, o.fnRet, Tail(returns))

----------------------------------------------------------------------------
(* The semantic analyzer: one step per statement, opening or closing *)

tableVars == <<ops, call, reachLog>>

\* a frame of the analyzer's call stack: the handler that is waiting for the
\* statements of a block, with the locals it will use when the block ends
Frame(kind) ==
    [kind |-> kind, cond |-> "none", else_block |-> FALSE, then_reachable |-> TRUE,
     name |-> "", var_type |-> NoType, returns |-> <<>>]

Running == status = "running" /\ frames # <<>>

\* the frame of a function literal's body, whose direct return statements the
\* literal's handler has already passed over
IsFunctionLiteralFrame(f) == f.kind \in {"FunctionLiteral", "EchoFunctionLiteral"}

\* the identity of the Scope object an analyzer step constructs.  The analyzer
\* compares only scopes and symbols that are on the stack, so a scope is
\* identified by the position it is pushed at.
NewId(s) == Len(s)

\* room for k more scopes within the bounds of the model
Room(k) == Len(scopes) + k <= MaxDepth

\* SemanticAnalyzer.analyze, and the loop of analyze_block_statement: a
\* statement is handed to its handler only if the scope chain is reachable
analyze_skips_reachability(o) == o
analyze(o) ==
    IF ~is_reachable(scopes) THEN Outcome("Unreachable", scopes, fnRet) ELSE o

\* exit_scope as called by the handlers
ExitOutcome(s, fr) ==
    IF exit_scope_ok(s) THEN Outcome("running", exit_scope(s), fr)
    ELSE Outcome("IndexError", s, fr)

FinishNode(o, node) ==
    /\ status' = o.status
    /\ scopes' = o.scopes
    /\ fnRet' = o.fnRet
    /\ last' = node
Finish(o, op, arg) == FinishNode(o, [op |-> op, arg |-> arg])

\* the frame stack after a step that opens a block: unchanged if it raised
Push(o, frame) == frames' = IF o.status = "running" THEN Append(frames, frame) ELSE frames
Pop == frames' = SubSeq(frames, 1, Len(frames) - 1)

\* SemanticAnalyzer.analyze(Program) up to the loop of analyze_program
AnalyzeProgram ==
    /\ status = "init"
    /\ Finish(analyze(Outcome("running", enter_scope(scopes, NewId(scopes), NoNode), fnRet)),
              "Program", "")
    /\ frames' = <<Frame("Program")>>
    /\ UNCHANGED <<nextId, tableVars, pureVars>>

\* analyze_program after its loop
EndProgram ==
    /\ Running /\ Len(frames) = 1 /\ Top(frames).kind = "Program"
    /\ LET o == ExitOutcome(scopes, fnRet)
       IN  Finish([o EXCEPT !.status = IF o.status = "running" THEN "done" ELSE o.status],
                  "EndProgram", "")
    /\ Pop
    /\ UNCHANGED <<nextId, tableVars, pureVars>>

\* `var_type name = init;` with a literal or an identifier as initializer
VariableDeclaration(name, var_type, init) ==
    /\ Running
    /\ LET init_type == analyze_expression(scopes, fnRet, init)
           o == IF init_type.error # "none" THEN Outcome(init_type.error, scopes, fnRet)
                ELSE analyze_variable_declaration(scopes, fnRet, name, var_type, init_type.type)
       IN  FinishNode(analyze(o), [op |-> "VariableDeclaration", arg |-> name,
                                   var_type |-> var_type, init |-> init])
    /\ UNCHANGED <<frames, nextId, tableVars, pureVars>>

\* `echo e;` (analyze_echo_statement)
EchoStatement(e) ==
    /\ Running
    /\ LET t == analyze_expression(scopes, fnRet, e)
           o == Outcome(IF t.error # "none" THEN t.error ELSE "running", scopes, fnRet)
       IN  Finish(analyze(o), "EchoStatement", IF e \in Names THEN e ELSE "")
    /\ UNCHANGED <<frames, nextId, tableVars, pureVars>>

\* `name = value;` (analyze_generic on the expression statement, then
\* analyze_assignment_expression with an Identifier on the left)
AssignmentExpression(name, value) ==
    /\ Running
    /\ LET t == analyze_assignment_expression(scopes, fnRet, analyze_identifier(scopes, name), value)
           o == Outcome(IF t.error # "none" THEN t.error ELSE "running", scopes, fnRet)
       IN  Finish(analyze(o), "AssignmentExpression", name)
    /\ UNCHANGED <<frames, nextId, tableVars, pureVars>>

\* `callee(args);` (analyze_generic on the expression statement, then
\* analyze_function_call_expression)
FunctionCallExpression(e) ==
    /\ Running
    /\ LET t == analyze_function_call_expression(scopes, fnRet, e)
           o == Outcome(IF t.error # "none" THEN t.error ELSE "running", scopes, fnRet)
       IN  Finish(analyze(o), "FunctionCallExpression", e)
    /\ UNCHANGED <<frames, nextId, tableVars, pureVars>>

\* `name[index] = value;` (analyze_assignment_expression with an
\* IndexExpression on the left)
IndexAssignment(name, index, value) ==
    /\ Running
    /\ LET t == analyze_assignment_expression(
                    scopes, fnRet, analyze_index_expression(scopes, name, index), value)
           o == Outcome(IF t.error # "none" THEN t.error ELSE "running", scopes, fnRet)
       IN  Finish(analyze(o), "IndexAssignment", name)
    /\ UNCHANGED <<frames, nextId, tableVars, pureVars>>

\* `halt;`
HaltStatement ==
    /\ Running
    /\ Finish(analyze(analyze_halt_statement(scopes, fnRet)), "HaltStatement", "")
    /\ UNCHANGED <<frames, nextId, tableVars, pureVars>>

\* `skip;`
SkipStatement ==
    /\ Running
    /\ Finish(analyze(analyze_halt_statement(scopes, fnRet)), "SkipStatement", "")
    /\ UNCHANGED <<frames, nextId, tableVars, pureVars>>

\* `return e;` or `return;`.  A return that is a direct statement of a
\* function literal's body is one of those the literal's pre-pass has seen.
ReturnStatement(e) ==
    /\ Running
    /\ IsFunctionLiteralFrame(Top(frames)) =>
           Top(frames).returns # <<>> /\ Head(Top(frames).returns) = e
    /\ Finish(analyze(analyze_return_statement(scopes, fnRet, e)), "ReturnStatement", e)
    /\ frames' = IF IsFunctionLiteralFrame(Top(frames))
                 THEN [frames EXCEPT ![Len(frames)].returns = Tail(@)]
                 ELSE frames
    /\ UNCHANGED <<nextId, tableVars, pureVars>>

\* `{` opening a block statement (analyze_block_statement with new_scope)
BlockStatement ==
    /\ Running /\ Room(1)
    /\ LET o == analyze(Outcome("running", enter_scope(scopes, NewId(scopes), NoNode), fnRet))
       IN  Finish(o, "BlockStatement", "") /\ Push(o, Frame("Block"))
    /\ UNCHANGED <<nextId, tableVars, pureVars>>

\* `}` closing a block statement
CloseBlock ==
    /\ Running /\ Top(frames).kind = "Block"
    /\ Finish(ExitOutcome(scopes, fnRet), "CloseBlock", "")
    /\ Pop
    /\ UNCHANGED <<nextId, tableVars, pureVars>>

\* `if cond {`: analyze_if_statement up to the statements of the first block
\* it analyzes.  cond is a boolean expression ("bool"), the literal true or
\* false, or an expression of another type ("int"); then_statements says
\* whether the then block has statements (the handler asks only when the
\* condition is the literal false), else_block whether there is an else block.
IfStatement_analyzes_dead_then(cond, then_statements, else_block) ==
    /\ Running /\ Room(1)
    /\ LET enter == Outcome("running",
                            enter_scope(scopes, NewId(scopes), Node("IfStatement", 0)), fnRet)
           o == analyze(
                  IF cond = "int" THEN Outcome("ConditionNotBoolean", scopes, fnRet)
                  ELSE IF cond = "false"
                  THEN IF else_block THEN enter
                       ELSE Outcome("running", scopes, fnRet)
                  ELSE enter)
       IN  /\ Finish(o, "IfStatement",
                     [cond |-> cond, then_statements |-> then_statements,
                      else_block |-> else_block])
           /\ frames' =
                IF o.status # "running" \/ o.scopes = scopes THEN frames
                ELSE IF cond = "false"
                THEN Append(frames, [Frame("Else") EXCEPT !.cond = cond,
                                                          !.else_block = else_block])
                ELSE Append(frames, [Frame("Then") EXCEPT !.cond = cond,
                                                          !.else_block = else_block])
    /\ UNCHANGED <<nextId, tableVars, pureVars>>
IfStatement(cond, then_statements, else_block) ==
    /\ Running /\ Room(1)
    /\ LET enter == Outcome("running",
                            enter_scope(scopes, NewId(scopes), Node("IfStatement", 0)), fnRet)
           o == analyze(
                  IF cond = "int" THEN Outcome("ConditionNotBoolean", scopes, fnRet)
                  ELSE IF cond = "false"
                  THEN IF then_statements THEN Outcome("UnreachableIf", scopes, fnRet)
                       ELSE IF else_block THEN enter
                       ELSE Outcome("running", scopes, fnRet)
                  ELSE enter)
       IN  /\ Finish(o, "IfStatement",
                     [cond |-> cond, then_statements |-> then_statements,
                      else_block |-> else_block])
           /\ frames' =
                IF o.status # "running" \/ o.scopes = scopes THEN frames
                ELSE IF cond = "false"
                THEN Append(frames, [Frame("Else") EXCEPT !.cond = cond,
                                                          !.else_block = else_block])
                ELSE Append(frames, [Frame("Then") EXCEPT !.cond = cond,
                                                          !.else_block = else_block])
    /\ UNCHANGED <<nextId, tableVars, pureVars>>

\* `}` closing the then block (_analyze_then_block after the block), followed
\* by `else {` if the statement has an else block
CloseThen_propagates ==
    /\ Running /\ Top(frames).kind = "Then"
    /\ LET else_block == Top(frames).else_block
           then_reachable == is_reachable(scopes)
           x == ExitOutcome(scopes, fnRet)
           o == IF x.status # "running" THEN x
                ELSE IF ~else_block
                THEN IF then_reachable THEN x
                     ELSE Outcome("running", set_unreachable(x.scopes), fnRet)
                ELSE IF Top(frames).cond = "true"
                THEN Outcome("UnreachableElse", x.scopes, fnRet)
                ELSE Outcome("running",
                             enter_scope(x.scopes, NewId(x.scopes), Node("IfStatement", 0)), fnRet)
       IN  /\ Finish(o, "CloseThen", [cond |-> Top(frames).cond, reachable |-> then_reachable])
           /\ frames' =
                IF o.status = "running" /\ else_block
                THEN [frames EXCEPT ![Len(frames)].kind = "Else",
                                    ![Len(frames)].then_reachable = then_reachable]
                ELSE SubSeq(frames, 1, Len(frames) - 1)
    /\ UNCHANGED <<nextId, tableVars, pureVars>>
CloseThen ==
    /\ Running /\ Top(frames).kind = "Then"
    /\ LET else_block == Top(frames).else_block
           then_reachable == is_reachable(scopes)
           x == ExitOutcome(scopes, fnRet)
           o == IF x.status # "running" THEN x
                ELSE IF ~else_block THEN x
                ELSE IF Top(frames).cond = "true"
                THEN Outcome("UnreachableElse", x.scopes, fnRet)
                ELSE Outcome("running",
                             enter_scope(x.scopes, NewId(x.scopes), Node("IfStatement", 0)), fnRet)
       IN  /\ Finish(o, "CloseThen", [cond |-> Top(frames).cond, reachable |-> then_reachable])
           /\ frames' =
                IF o.status = "running" /\ else_block
                THEN [frames EXCEPT ![Len(frames)].kind = "Else",
                                    ![Len(frames)].then_reachable = then_reachable]
                ELSE SubSeq(frames, 1, Len(frames) - 1)
    /\ UNCHANGED <<nextId, tableVars, pureVars>>

\* `}` closing the else block (_analyze_else_block after the block) and the
\* end of analyze_if_statement
CloseElse_either_branch ==
    /\ Running /\ Top(frames).kind = "Else"
    /\ LET else_reachable == is_reachable(scopes)
           x == ExitOutcome(scopes, fnRet)
           o == IF x.status # "running" THEN x
                ELSE IF /\ Top(frames).cond = "bool"
                        /\ (~Top(frames).then_reachable \/ ~else_reachable)
                THEN Outcome("running", set_unreachable(x.scopes), fnRet)
                ELSE x
       IN  Finish(o, "CloseElse", [cond |-> Top(frames).cond, reachable |-> else_reachable])
    /\ Pop
    /\ UNCHANGED <<nextId, tableVars, pureVars>>
CloseElse ==
    /\ Running /\ Top(frames).kind = "Else"
    /\ LET else_reachable == is_reachable(scopes)
           x == ExitOutcome(scopes, fnRet)
           o == IF x.status # "running" THEN x
                ELSE IF /\ Top(frames).cond = "bool"
                        /\ ~Top(frames).then_reachable
                        /\ ~else_reachable
                THEN Outcome("running", set_unreachable(x.scopes), fnRet)
                ELSE x
       IN  Finish(o, "CloseElse", [cond |-> Top(frames).cond, reachable |-> else_reachable])
    /\ Pop
    /\ UNCHANGED <<nextId, tableVars, pureVars>>

\* `while cond {`
WhileStatement(cond) ==
    /\ Running /\ Room(1)
    /\ LET o == analyze(
                  IF cond # "bool" THEN Outcome("ConditionNotBoolean", scopes, fnRet)
                  ELSE Outcome("running",
                               enter_scope(scopes, NewId(scopes), Node("WhileStatement", 0)), fnRet))
       IN  Finish(o, "WhileStatement", "") /\ Push(o, Frame("Loop"))
    /\ UNCHANGED <<nextId, tableVars, pureVars>>

\* `range name in start to 10 by 1 {`
RangeStatement(name, start) ==
    /\ Running /\ Room(1)
    /\ LET start_type == analyze_expression(scopes, fnRet, start)
           entered == enter_scope(scopes, NewId(scopes), Node("RangeStatement", 0))
           o == analyze(
                  IF start_type.error # "none" THEN Outcome(start_type.error, scopes, fnRet)
                  ELSE IF start_type.type # "int" THEN Outcome("RangeNotInteger", scopes, fnRet)
                  ELSE IF ~define_ok(entered, name) THEN Outcome("KeyError", entered, fnRet)
                  ELSE Outcome("running", define(entered, name, "int"), fnRet))
       IN  Finish(o, "RangeStatement", name) /\ Push(o, Frame("Loop"))
    /\ UNCHANGED <<nextId, tableVars, pureVars>>

\* `each name in iterable {`
EachStatement(name, iterable) ==
    /\ Running /\ Room(1)
    /\ LET iterable_type == analyze_expression(scopes, fnRet, iterable)
           entered == enter_scope(scopes, NewId(scopes), Node("EachStatement", 0))
           o == analyze(
                  IF iterable_type.error # "none"
                  THEN Outcome(iterable_type.error, scopes, fnRet)
                  ELSE IF iterable_type.type # "int[]" THEN Outcome("EachNotArray", scopes, fnRet)
                  ELSE IF ~define_ok(entered, name) THEN Outcome("KeyError", entered, fnRet)
                  ELSE Outcome("running", define(entered, name, "int"), fnRet))
       IN  Finish(o, "EachStatement", name) /\ Push(o, Frame("Loop"))
    /\ UNCHANGED <<nextId, tableVars, pureVars>>

\* `}` closing the body of a while, range or each statement
CloseLoop ==
    /\ Running /\ Top(frames).kind = "Loop"
    /\ Finish(ExitOutcome(scopes, fnRet), "CloseLoop", "")
    /\ Pop
    /\ UNCHANGED <<nextId, tableVars, pureVars>>

\* function declarations analyzed so far
DeclaredFns == {k \in 1..MaxFns : fnRet[k] # "none"}

\* `func name -> ret = [int p, ...] >> {`: analyze_function_declaration up to
\* the statements of the body (no template context)
FunctionDeclaration(name, ret, params) ==
    /\ Running /\ Room(1)
    /\ Cardinality(DeclaredFns) < MaxFns
    /\ LET k == Cardinality(DeclaredFns) + 1
           fr == [fnRet EXCEPT ![k] = ret]
           named == define(scopes, name, FunctionType(k, Len(params)))
           entered == define_params(
                          enter_scope(named, NewId(named), Node("FunctionDeclaration", k)), params)
           o == analyze(
                  IF lookup(scopes, name, TRUE) # NoSymbol
                  THEN Outcome("RedeclareFunction", scopes, fnRet)
                  ELSE IF ~define_ok(scopes, name) THEN Outcome("KeyError", scopes, fnRet)
                  ELSE Outcome(IF entered.error # "none" THEN entered.error ELSE "running",
                               entered.scopes, fr))
       IN  Finish(o, "FunctionDeclaration", name) /\ Push(o, Frame("FunctionDeclaration"))
    /\ UNCHANGED <<nextId, tableVars, pureVars>>

\* `}` closing the body of a function declaration
CloseFunctionDeclaration ==
    /\ Running /\ Top(frames).kind = "FunctionDeclaration"
    /\ Finish(ExitOutcome(scopes, fnRet), "CloseFunctionDeclaration", "")
    /\ Pop
    /\ UNCHANGED <<nextId, tableVars, pureVars>>

\* analyze_function_literal up to the statements of the literal's body: the
\* literal's scope, its parameters, the pass over the return statements that
\* are direct statements of the body (`returns`, their expressions in order),
\* and the scope of the body block
open_function_literal(s, fr, params, returns) ==
    LET entered == define_params(enter_scope(s, NewId(s), Node("FunctionLiteral", 0)), params)
        pre == function_literal_returns(entered.scopes, fr, returns)
    IN  IF entered.error # "none" THEN Outcome(entered.error, entered.scopes, fr)
        ELSE IF pre.status # "running" THEN pre
        ELSE Outcome("running", enter_scope(pre.scopes, NewId(pre.scopes), NoNode), pre.fnRet)

\* analyze_function_literal after the statements of the body: the end of
\* analyze_block_statement and the literal's own exit_scope
close_function_literal_exits_once(s, fr) == ExitOutcome(s, fr)
close_function_literal(s, fr) ==
    LET x == ExitOutcome(s, fr)
    IN  IF x.status # "running" THEN x ELSE ExitOutcome(x.scopes, fr)

\* `var_type name = func [int p, ...] >> {`: analyze_variable_declaration
\* analyzing its initializer, a function literal, up to the statements of the
\* literal's body
VariableDeclarationFunctionLiteral(name, var_type, params, returns) ==
    /\ Running /\ Room(2)
    /\ LET o == analyze(open_function_literal(scopes, fnRet, params, returns))
       IN  /\ Finish(o, "FunctionLiteral", name)
           /\ Push(o, [Frame("FunctionLiteral") EXCEPT
                          !.name = name, !.var_type = var_type, !.returns = returns])
    /\ UNCHANGED <<nextId, tableVars, pureVars>>

\* `};` closing the body of the function literal: the end of
\* analyze_block_statement and of analyze_function_literal, and the rest of
\* analyze_variable_declaration with the literal's function type
CloseFunctionLiteral ==
    /\ Running /\ Top(frames).kind = "FunctionLiteral"
    /\ Top(frames).returns = <<>>
    /\ LET y == close_function_literal(scopes, fnRet)
           o == IF y.status # "running" THEN y
                ELSE analyze_variable_declaration(
                         y.scopes, fnRet, Top(frames).name, Top(frames).var_type, "func")
       IN  Finish(o, "CloseFunctionLiteral", Top(frames).name)
    /\ Pop
    /\ UNCHANGED <<nextId, tableVars, pureVars>>

\* `echo func [int p, ...] >> {`: analyze_echo_statement analyzing its
\* expression, a function literal, up to the statements of the literal's body
EchoFunctionLiteral(params, returns) ==
    /\ Running /\ Room(2)
    /\ LET o == analyze(open_function_literal(scopes, fnRet, params, returns))
       IN  /\ Finish(o, "EchoFunctionLiteral", "")
           /\ Push(o, [Frame("EchoFunctionLiteral") EXCEPT !.returns = returns])
    /\ UNCHANGED <<nextId, tableVars, pureVars>>

\* `};` closing the body of the echoed function literal
CloseEchoFunctionLiteral ==
    /\ Running /\ Top(frames).kind = "EchoFunctionLiteral"
    /\ Top(frames).returns = <<>>
    /\ Finish(close_function_literal(scopes, fnRet), "CloseEchoFunctionLiteral", "")
    /\ Pop
    /\ UNCHANGED <<nextId, tableVars, pureVars>>

\* what the programs are made of
VarNames == {"x"}
FnNames == {"f"}
Conds == {"bool", "true", "false", "int"}
ParamLists == {<<>>, <<"x">>, <<"x", "x">>}
ReturnExprs == {NoExpr, "int", "x"}
ReturnLists == {<<>>} \cup {<<e>> : e \in ReturnExprs}

\* the steps every program takes part in: the program itself, blocks, loops
\* and echo statements
CommonNext ==
    \/ AnalyzeProgram
    \/ EndProgram
    \/ BlockStatement
    \/ CloseBlock
    \/ CloseLoop
    \/ CloseFunctionDeclaration

\* programs about names or control flow nest one level less deep than the
\* model allows, their cases needing no more
Shallow == Len(scopes') < MaxDepth
ShallowNext ==
    \/ AnalyzeProgram
    \/ EndProgram
    \/ BlockStatement /\ Shallow
    \/ CloseBlock
    \/ CloseLoop
    \/ CloseFunctionDeclaration

\* programs of declarations and uses of names, in the scopes that blocks,
\* loops with a loop variable, function declarations and function literals
\* open; no statement ends a block early
ScopeNext ==
    \/ ShallowNext
    \/ \E e \in Exprs : EchoStatement(e)
    \/ \E name \in VarNames, var_type \in {"int", "int[]", "infer"}, init \in Exprs :
           VariableDeclaration(name, var_type, init)
    \/ \E name \in VarNames, value \in Exprs : AssignmentExpression(name, value)
    \/ \E name \in VarNames, index \in Literals : IndexAssignment(name, index, "int")
    \/ \E name \in VarNames, start \in Exprs : RangeStatement(name, start) /\ Shallow
    \/ \E name \in VarNames, iterable \in Exprs : EachStatement(name, iterable) /\ Shallow
    \/ \E name \in FnNames, params \in ParamLists :
           FunctionDeclaration(name, "void", params) /\ Shallow
    \/ \E name \in FnNames, var_type \in {"infer", "int"}, params \in ParamLists :
           VariableDeclarationFunctionLiteral(name, var_type, params, <<>>) /\ Shallow
    \/ CloseFunctionLiteral

\* programs of control flow: halt, skip and return in blocks, branches, loops
\* and functions; the only names are function names, parameters and loop
\* variables
FlowNext ==
    \/ ShallowNext
    \/ EchoStatement("int")
    \/ HaltStatement
    \/ SkipStatement
    \/ \E e \in ReturnExprs : ReturnStatement(e)
    \/ \E else_block \in BOOLEAN : IfStatement("bool", TRUE, else_block) /\ Shallow
    \/ CloseThen /\ Shallow
    \/ CloseElse
    \/ WhileStatement("bool") /\ Shallow
    \/ \E name \in FnNames, ret \in {"int", "void", "infer"}, params \in {<<>>, <<"x">>} :
           FunctionDeclaration(name, ret, params) /\ Shallow
    \/ \E returns \in ReturnLists : EchoFunctionLiteral(<<>>, returns) /\ Shallow
    \/ CloseEchoFunctionLiteral

\* programs of if statements of every kind of condition, around statements
\* that end a block early
BranchNext ==
    \/ CommonNext
    \/ EchoStatement("int")
    \/ HaltStatement
    \/ ReturnStatement(NoExpr)
    \/ \E cond \in Conds, then_statements, else_block \in BOOLEAN :
           IfStatement(cond, then_statements, else_block)
    \/ CloseThen
    \/ CloseElse
    \/ WhileStatement("bool")
    \/ \E name \in FnNames : FunctionDeclaration(name, "void", <<>>)

\* programs of loops and what may come between a loop and a halt or skip
LoopNext ==
    \/ CommonNext
    \/ HaltStatement
    \/ SkipStatement
    \/ IfStatement("bool", TRUE, FALSE)
    \/ CloseThen
    \/ WhileStatement("bool")
    \/ RangeStatement("x", "int")
    \/ EachStatement("x", "int[]")
    \/ \E name \in FnNames : FunctionDeclaration(name, "void", <<>>)
    \/ EchoFunctionLiteral(<<>>, <<>>)
    \/ CloseEchoFunctionLiteral

\* programs that declare, assign and call with types that may differ
DeclaredTypes == {"int", "string", "int[]", "infer", "y"}
TypedExprs == {"int", "string", "f()", "f(int)"}
TypeNext ==
    \/ AnalyzeProgram
    \/ EndProgram
    \/ CloseFunctionDeclaration
    \/ \E ret \in {"int", "infer"}, params \in {<<>>, <<"y">>} :
           FunctionDeclaration("f", ret, params)
    \/ \E var_type \in DeclaredTypes, init \in TypedExprs :
           VariableDeclaration("x", var_type, init)
    \/ \E value \in {"int", "string"} : AssignmentExpression("x", value)
    \/ \E e \in Calls : FunctionCallExpression(e)
    \/ \E e \in {NoExpr, "int", "string", "f()"} : ReturnStatement(e)

machineVars == <<scopes, nextId, ops, call, reachLog, frames, status, last, fnRet>>

----------------------------------------------------------------------------
(* Type objects and their equality (types.py), compared on their own *)

\* nesting depth of the types compared
MaxTypeDepth == 2

PrimitiveType(primitive) == [tag |-> "PrimitiveType", primitive |-> primitive]
VoidType == PrimitiveType("VOID")
ArrayType(element_type) == [tag |-> "ArrayType", element_type |-> element_type]
SetType(element_type) == [tag |-> "SetType", element_type |-> element_type]
MapType(key_type, value_type) ==
    [tag |-> "MapType", key_type |-> key_type, value_type |-> value_type]

\* FunctionType objects; param_types is a list of (name, type) pairs
FunctionTypeOf(returned, parameters) ==
    [tag |-> "FunctionType", return_type |-> returned, param_types |-> parameters]
CustomTypeIdentifier(name) == [tag |-> "CustomTypeIdentifier", name |-> name]
\* TemplateType objects; a dict is the list of its items, (key, value) pairs
\* in insertion order
TemplateType(identifier, attributes, methods) ==
    [tag |-> "TemplateType", identifier |-> identifier, attributes |-> attributes,
     methods |-> methods]

Primitives == {PrimitiveType("INT"), PrimitiveType("STR"), VoidType}

\* the types nested at most d deep; a map counts for two levels
RECURSIVE TypesOfDepth(_)
TypesOfDepth(d) ==
    IF d <= 0 THEN Primitives
    ELSE LET S == TypesOfDepth(d - 1)
             M == IF d = 1 THEN {} ELSE TypesOfDepth(d - 2)
         IN  S \cup {ArrayType(t) : t \in S} \cup {SetType(t) : t \in S}
               \cup {MapType(k, v) : k \in M, v \in M}

\* __eq__ of PrimitiveType, ArrayType, SetType and MapType
RECURSIVE eq_structural(_, _)
eq_structural(self, other) ==
    CASE self.tag = "PrimitiveType" ->
             other.tag = "PrimitiveType" /\ self.primitive = other.primitive
      [] self.tag = "MapType" ->
             /\ other.tag = "MapType"
             /\ eq_structural(self.key_type, other.key_type)
             /\ eq_structural(self.value_type, other.value_type)
      [] OTHER ->
             /\ other.tag = self.tag
             /\ eq_structural(self.element_type, other.element_type)
\* zip(self, other): the pairs of items at the same place, as far as the
\* shorter list goes
zip(self, other) ==
    [i \in 1..(IF Len(self) <= Len(other) THEN Len(self) ELSE Len(other))
        |-> <<self[i], other[i]>>]

RECURSIVE eq(_, _)
eq(self, other) ==
    CASE self.tag = "PrimitiveType" ->
             other.tag = "PrimitiveType" /\ self.primitive = other.primitive
      [] self.tag = "FunctionType" ->
             /\ other.tag = "FunctionType"
             /\ eq(self.return_type, other.return_type)
             /\ Len(self.param_types) = Len(other.param_types)
             /\ \A i \in 1..Len(self.param_types) :
                    /\ self.param_types[i][1] = other.param_types[i][1]
                    /\ eq(self.param_types[i][2], other.param_types[i][2])
      [] self.tag = "CustomTypeIdentifier" ->
             IF other.tag = "TemplateType" THEN self.name = other.identifier.name
             ELSE other.tag = "CustomTypeIdentifier" /\ self.name = other.name
      [] self.tag = "TemplateType" ->
             IF other.tag = "CustomTypeIdentifier" THEN self.identifier.name = other.name
             ELSE /\ other.tag = "TemplateType"
                  /\ \A i \in DOMAIN zip(self.attributes, other.attributes) :
                         LET a == zip(self.attributes, other.attributes)[i][1]
                             b == zip(self.attributes, other.attributes)[i][2]
                         IN  a[1] = b[1] /\ eq(a[2], b[2])
                  /\ \A i \in DOMAIN zip(self.methods, other.methods) :
                         LET a == zip(self.methods, other.methods)[i][1]
                             b == zip(self.methods, other.methods)[i][2]
                         IN  a[1] = b[1] /\ eq(a[2], b[2])
      [] self.tag = "MapType" ->
             /\ other.tag = "MapType"
             /\ \/ /\ eq(self.key_type, other.key_type)
                   /\ eq(self.value_type, other.value_type)
                \/ eq(self.key_type, VoidType) /\ eq(self.value_type, VoidType)
                \/ eq(other.key_type, VoidType) /\ eq(other.value_type, VoidType)
      [] OTHER ->
             /\ other.tag = self.tag
             /\ \/ eq(self.element_type, other.element_type)
                \/ eq(self.element_type, VoidType)
                \/ eq(other.element_type, VoidType)

\* two types to compare
InitTypes ==
    /\ Fresh
    /\ input \in {<<self, other>> : self \in TypesOfDepth(MaxTypeDepth),
                                     other \in TypesOfDepth(MaxTypeDepth)}
    /\ output = <<>>

\* `self == other`
Compare ==
    /\ input # <<>>
    /\ output = <<>>
    /\ output' = <<eq(input[1], input[2])>>
    /\ UNCHANGED <<machineVars, input>>

TypesNext == Compare

SpecTypes == InitTypes /\ [][TypesNext]_vars

----------------------------------------------------------------------------
(* Template types compared on their own (TemplateType.__eq__) *)

\* attributes, and methods, of one template
MaxMembers == 2

\* dicts of at most n items with keys among `keys`, each key once
Dicts(keys, values, n) ==
    {d \in UNION {[1..k -> keys \X values] : k \in 0..n} :
         \A i, j \in DOMAIN d : i # j => d[i][1] # d[j][1]}

AttributeTypes == {PrimitiveType("INT"), PrimitiveType("STR")}
MethodTypes == {FunctionTypeOf(t, <<>>) : t \in AttributeTypes}
Templates ==
    {TemplateType(CustomTypeIdentifier(name), attributes, methods) :
         name \in {"P", "Q"},
         attributes \in Dicts({"x", "y"}, AttributeTypes, MaxMembers),
         methods \in Dicts({"m"}, MethodTypes, MaxMembers)}

\* two template types to compare
InitTemplates ==
    /\ Fresh
    /\ input \in Templates \X Templates
    /\ output = <<>>

SpecTemplates == InitTemplates /\ [][TypesNext]_vars

----------------------------------------------------------------------------
(* The expression parser (parser/expressions.py), called on its own *)

\* tokens, written as their text; the lexer ends every list with EOF
IdentifierTokens == {"a", "f", "g"}
token_type(token) ==
    CASE token \in IdentifierTokens -> "IDENTIFIER"
      [] token = "5" -> "INT_LITERAL"
      [] token = "int" -> "INT"
      [] token = "str" -> "STR"
      [] OTHER -> token

\* AST nodes
IdentifierNode(name) == [tag |-> "Identifier", name |-> name]
NumericLiteralNode(value) == [tag |-> "NumericLiteral", value |-> value]
ArrayLiteralNode(elements) == [tag |-> "ArrayLiteral", elements |-> elements]
BinaryExpressionNode(left, operator, right) ==
    [tag |-> "BinaryExpression", left |-> left, operator |-> operator, right |-> right]
AssignmentExpressionNode(left, right) ==
    [tag |-> "AssignmentExpression", left |-> left, right |-> right]
IndexExpressionNode(array, index) ==
    [tag |-> "IndexExpression", array |-> array, index |-> index]
FunctionCallExpressionNode(function, arguments) ==
    [tag |-> "FunctionCallExpression", callee |-> function, args |-> arguments]
MemberAccessExpressionNode(obj, member) ==
    [tag |-> "MemberAccessExpression", obj |-> obj, member |-> member]
MethodCallExpressionNode(obj, method, arguments) ==
    [tag |-> "MethodCallExpression", obj |-> obj, method |-> method, args |-> arguments]
UnaryExpressionNode(operator, operand, position) ==
    [tag |-> "UnaryExpression", operator |-> operator, operand |-> operand,
     position |-> position]
ExpressionStatementNode(expression) ==
    [tag |-> "ExpressionStatement", expression |-> expression]

\* what a parse method leaves behind: the error it raised, or what it
\* returned and the parser's position
Parsed(node, pos) == [error |-> "none", node |-> node, pos |-> pos]
SyntaxError(message) == [error |-> message, node |-> <<>>, pos |-> 0]
SyntaxErrors == {"Expected", "UnexpectedToken", "InvalidLeftHandSide"}

\* isinstance(node, classes), the classes of the AST being unrelated
isinstance(node, classes) == node.tag \in classes

\* Parser.consume
consume(tokens, pos, expected) ==
    IF token_type(tokens[pos]) # expected THEN SyntaxError("Expected")
    ELSE Parsed(tokens[pos], pos + 1)

\* helpers.get_precedence: the additive level for `+` and `-`, none for a token that
\* is no binary operator
get_precedence(token) == IF token \in {"+", "-"} THEN 5 ELSE 0

RECURSIVE parse_expression(_, _)
RECURSIVE parse_assignment_expression(_, _)
RECURSIVE parse_binary_expression(_, _, _)
RECURSIVE binary_operators(_, _, _, _)
RECURSIVE parse_unary_expression(_, _)
RECURSIVE postfix_operators(_, _, _)
RECURSIVE parse_primary_expression(_, _)
RECURSIVE parse_identifier_expression(_, _)
RECURSIVE parse_postfix_expression(_, _, _)
RECURSIVE parse_function_call_expression(_, _, _)
RECURSIVE expression_list(_, _)
RECURSIVE parse_arguments(_, _)
RECURSIVE parse_array_literal(_, _)
RECURSIVE parse_index_expression(_, _, _)
RECURSIVE parse_member_access_expression(_, _, _)
RECURSIVE parse_method_call_expression(_, _, _, _)
RECURSIVE stage_arguments(_, _)
RECURSIVE parse_pipe_expression_flat(_, _, _, _)
RECURSIVE parse_pipe_expression(_, _, _, _)

\* what follows a call of a parse method: the error it raised goes on up,
\* and its result goes to the rest of the caller
Bind(result, rest(_)) == IF result.error # "none" THEN result ELSE rest(result)

\* ExpressionParser.parse_expression (no set literal or function literal
\* among the tokens)
parse_expression(tokens, pos) ==
    IF tokens[pos] = "[" THEN parse_array_literal(tokens, pos)
    ELSE parse_assignment_expression(tokens, pos)

\* ExpressionParser.parse_assignment_expression
parse_assignment_expression(tokens, pos) ==
    Bind(parse_binary_expression(tokens, pos, 0), LAMBDA left :
      IF tokens[left.pos] # "=" THEN left
      ELSE Bind(parse_assignment_expression(tokens, left.pos + 1), LAMBDA right :
             IF isinstance(left.node, {"Identifier", "IndexExpression"})
             THEN Parsed(AssignmentExpressionNode(left.node, right.node), right.pos)
             ELSE SyntaxError("InvalidLeftHandSide")))

\* ExpressionParser.parse_binary_expression; binary_operators is its loop
parse_binary_expression(tokens, pos, precedence) ==
    Bind(parse_unary_expression(tokens, pos), LAMBDA left :
      binary_operators(tokens, left.pos, precedence, left.node))
binary_operators(tokens, pos, precedence, left) ==
    IF tokens[pos] = "EOF" \/ get_precedence(tokens[pos]) <= precedence
    THEN Parsed(left, pos)
    ELSE Bind(parse_binary_expression(tokens, pos + 1, get_precedence(tokens[pos])),
              LAMBDA right :
                binary_operators(tokens, right.pos, precedence,
                                 BinaryExpressionNode(left, tokens[pos], right.node)))

\* ExpressionParser.parse_unary_expression; postfix_operators is its loop
parse_unary_expression(tokens, pos) ==
    IF token_type(tokens[pos]) \in {"++", "--", "!"}
    THEN Bind(parse_unary_expression(tokens, pos + 1), LAMBDA operand :
           Parsed(UnaryExpressionNode(token_type(tokens[pos]), operand.node, "PRE"),
                  operand.pos))
    ELSE Bind(parse_primary_expression(tokens, pos), LAMBDA expr :
           postfix_operators(tokens, expr.pos, expr.node))
postfix_operators(tokens, pos, expr) ==
    IF token_type(tokens[pos]) \in {"++", "--"}
    THEN postfix_operators(tokens, pos + 1,
                           UnaryExpressionNode(token_type(tokens[pos]), expr, "POST"))
    ELSE Parsed(expr, pos)

\* ExpressionParser.parse_primary_expression
parse_primary_expression(tokens, pos) ==
    CASE token_type(tokens[pos]) = "INT_LITERAL" -> Parsed(NumericLiteralNode("5"), pos + 1)
      [] tokens[pos] = "(" ->
             Bind(parse_expression(tokens, pos + 1), LAMBDA expr :
               Bind(consume(tokens, expr.pos, ")"), LAMBDA closed :
                 Parsed(expr.node, closed.pos)))
      [] tokens[pos] = "[" -> parse_array_literal(tokens, pos)
      [] token_type(tokens[pos]) = "IDENTIFIER" -> parse_identifier_expression(tokens, pos)
      [] OTHER -> SyntaxError("UnexpectedToken")

\* ExpressionParser.parse_identifier_expression (no `{` among the tokens)
parse_identifier_expression(tokens, pos) ==
    parse_postfix_expression(tokens, pos + 1, IdentifierNode(tokens[pos]))

\* ExpressionParser.parse_postfix_expression
parse_postfix_expression(tokens, pos, expr) ==
    IF tokens[pos] \notin {"(", "[", "."} THEN Parsed(expr, pos)
    ELSE Bind(CASE tokens[pos] = "(" -> parse_function_call_expression(tokens, pos, expr)
                [] tokens[pos] = "[" -> parse_index_expression(tokens, pos, expr)
                [] OTHER -> parse_member_access_expression(tokens, pos, expr),
              LAMBDA next : parse_postfix_expression(tokens, next.pos, next.node))

\* ExpressionParser.parse_function_call_expression, at the `(`
parse_function_call_expression(tokens, pos, function) ==
    Bind(parse_arguments(tokens, pos + 1), LAMBDA arguments :
      Bind(consume(tokens, arguments.pos, ")"), LAMBDA closed :
        Parsed(FunctionCallExpressionNode(function, arguments.node), closed.pos)))

\* an expression and, after each comma, one more
expression_list(tokens, pos) ==
    Bind(parse_expression(tokens, pos), LAMBDA first :
      IF tokens[first.pos] # "," THEN Parsed(<<first.node>>, first.pos)
      ELSE Bind(expression_list(tokens, first.pos + 1), LAMBDA rest :
             Parsed(<<first.node>> \o rest.node, rest.pos)))

\* ExpressionParser.parse_arguments
parse_arguments(tokens, pos) ==
    IF tokens[pos] # ")" THEN expression_list(tokens, pos) ELSE Parsed(<<>>, pos)

\* ExpressionParser.parse_array_literal, at the `[`
parse_array_literal(tokens, pos) ==
    Bind(IF tokens[pos + 1] # "]" THEN expression_list(tokens, pos + 1)
         ELSE Parsed(<<>>, pos + 1),
         LAMBDA elements :
           Bind(consume(tokens, elements.pos, "]"), LAMBDA closed :
             parse_pipe_expression(tokens, closed.pos, elements.node, <<>>)))

\* ExpressionParser.parse_index_expression, at the `[`
parse_index_expression(tokens, pos, array) ==
    Bind(parse_expression(tokens, pos + 1), LAMBDA index :
      Bind(consume(tokens, index.pos, "]"), LAMBDA closed :
        Parsed(IndexExpressionNode(array, index.node), closed.pos)))

\* ExpressionParser.parse_member_access_expression, at the `.`
parse_member_access_expression(tokens, pos, obj) ==
    Bind(consume(tokens, pos + 1, "IDENTIFIER"), LAMBDA member :
      IF tokens[member.pos] = "("
      THEN parse_method_call_expression(tokens, member.pos, obj, IdentifierNode(member.node))
      ELSE Parsed(MemberAccessExpressionNode(obj, IdentifierNode(member.node)), member.pos))

\* ExpressionParser.parse_method_call_expression, at the `(`
parse_method_call_expression(tokens, pos, obj, method) ==
    Bind(parse_arguments(tokens, pos + 1), LAMBDA arguments :
      Bind(consume(tokens, arguments.pos, ")"), LAMBDA closed :
        Parsed(MethodCallExpressionNode(obj, method, arguments.node), closed.pos)))

\* the arguments in brackets after the identifier of a pipe stage, if any
stage_arguments(tokens, pos) ==
    IF tokens[pos] # "(" THEN Parsed(<<>>, pos)
    ELSE Bind(parse_arguments(tokens, pos + 1), LAMBDA arguments :
           Bind(consume(tokens, arguments.pos, ")"), LAMBDA closed :
             Parsed(arguments.node, closed.pos)))

\* ExpressionParser.parse_pipe_expression after the bracketed list
\* `arguments`: one turn of its loop per `>>`; `piped` is <<>> while the local
\* `call` is None and <<call>> afterwards
parse_pipe_expression_flat(tokens, pos, arguments, piped) ==
    IF tokens[pos] # ">>"
    THEN IF piped = <<>> THEN Parsed(ArrayLiteralNode(arguments), pos)
         ELSE Parsed(piped[1], pos)
    ELSE Bind(consume(tokens, pos + 1, "IDENTIFIER"), LAMBDA identifier :
           Bind(stage_arguments(tokens, identifier.pos), LAMBDA more :
             parse_pipe_expression_flat(
                 tokens, more.pos, arguments \o more.node,
                 <<FunctionCallExpressionNode(IdentifierNode(identifier.node),
                                              arguments \o more.node)>>)))
parse_pipe_expression(tokens, pos, arguments, piped) ==
    IF tokens[pos] # ">>"
    THEN IF piped = <<>> THEN Parsed(ArrayLiteralNode(arguments), pos)
         ELSE Parsed(piped[1], pos)
    ELSE Bind(consume(tokens, pos + 1, "IDENTIFIER"), LAMBDA identifier :
           Bind(stage_arguments(tokens, identifier.pos), LAMBDA more :
             parse_pipe_expression(
                 tokens, more.pos, arguments,
                 <<FunctionCallExpressionNode(
                       IdentifierNode(identifier.node),
                       (IF piped # <<>> THEN piped ELSE arguments) \o more.node)>>)))

\* StatementParser.parse_expression_statement, from the first token
parse_expression_statement(tokens) ==
    Bind(parse_expression(tokens, 1), LAMBDA expr :
      Bind(consume(tokens, expr.pos, ";"), LAMBDA closed :
        Parsed(ExpressionStatementNode(expr.node), closed.pos)))

\* the tokens of one statement
MaxTokens == 5
AssignmentTokens == {"a", "5", "=", ".", "[", "]", "(", ")", "+"}
RECURSIVE TokenLists(_)
TokenLists(n) ==
    IF n = 0 THEN {<<>>}
    ELSE LET S == TokenLists(n - 1)
         IN  S \cup {Append(l, t) : l \in {m \in S : Len(m) = n - 1}, t \in AssignmentTokens}

\* the list of tokens the lexer hands to the parser for one statement
InitStatement ==
    /\ Fresh
    /\ input \in {l \o <<";", "EOF">> : l \in TokenLists(MaxTokens) \ {<<>>}}
    /\ output = <<>>

\* Parser.parse on a program of one expression statement
ParseStatement ==
    /\ input # <<>>
    /\ output = <<>>
    /\ output' = <<parse_expression_statement(input)>>
    /\ UNCHANGED <<machineVars, input>>

StatementNext == ParseStatement

\* the tokens of one statement of unary operators and their operands
UnaryTokens == {"a", "5", "-", "++", "--", "!"}
RECURSIVE UnaryTokenLists(_)
UnaryTokenLists(n) ==
    IF n = 0 THEN {<<>>}
    ELSE LET S == UnaryTokenLists(n - 1)
         IN  S \cup {Append(l, t) : l \in {m \in S : Len(m) = n - 1}, t \in UnaryTokens}
InitUnary ==
    /\ Fresh
    /\ input \in {l \o <<";", "EOF">> : l \in UnaryTokenLists(MaxTokens) \ {<<>>}}
    /\ output = <<>>

SpecUnary == InitUnary /\ [][StatementNext]_vars

SpecStatement == InitStatement /\ [][StatementNext]_vars

\* stages of one pipe expression
MaxStages == 2

\* the expressions a pipe expression is made of, as tokens
Atoms == {<<"a">>, <<"5">>, <<"[", "5", "]">>}
AtomLists == {<<>>} \cup {<<x>> : x \in Atoms} \cup {<<x, y>> : x \in Atoms, y \in Atoms}

\* one stage `>> identifier` or `>> identifier(arguments)`
Stages ==
    [identifier : {"f", "g"}, parens : BOOLEAN, arguments : {l \in AtomLists : Len(l) <= 1}]
       \ [identifier : {"f", "g"}, parens : {FALSE}, arguments : {l \in AtomLists : Len(l) = 1}]

RECURSIVE StageLists(_)
StageLists(n) ==
    IF n = 0 THEN {<<>>}
    ELSE LET S == StageLists(n - 1)
         IN  S \cup {Append(l, st) : l \in {m \in S : Len(m) = n - 1}, st \in Stages}

\* token lists separated by commas
RECURSIVE Commas(_)
Commas(lists) ==
    IF lists = <<>> THEN <<>>
    ELSE IF Len(lists) = 1 THEN Head(lists)
    ELSE Head(lists) \o <<",">> \o Commas(Tail(lists))

\* the text `[elements] >> stage >> ...`
RECURSIVE StagesText(_)
StagesText(stages) ==
    IF stages = <<>> THEN <<>>
    ELSE <<">>", Head(stages).identifier>>
           \o (IF Head(stages).parens
               THEN <<"(">> \o Commas(Head(stages).arguments) \o <<")">>
               ELSE <<>>)
           \o StagesText(Tail(stages))
PipeText(elements, stages) == <<"[">> \o Commas(elements) \o <<"]">> \o StagesText(stages)

\* the text of the call written out: `f_k(... f_1(elements, arguments_1) ..., arguments_k)`
RECURSIVE CallText(_, _)
CallText(elements, stages) ==
    LET k == Len(stages)
        first == IF k = 1 THEN elements ELSE <<CallText(elements, SubSeq(stages, 1, k - 1))>>
    IN  <<stages[k].identifier, "(">> \o Commas(first \o stages[k].arguments) \o <<")">>

\* a pipe expression to parse
InitPipe ==
    /\ Fresh
    /\ input \in [elements : AtomLists, stages : StageLists(MaxStages)]
    /\ output = <<>>

\* Parser.parse on the pipe expression as a statement, and on the nested call
\* written out
ParsePipe ==
    /\ input # <<>>
    /\ output = <<>>
    /\ output' =
           <<parse_expression_statement(PipeText(input.elements, input.stages) \o <<";", "EOF">>),
             IF input.stages = <<>> THEN Parsed(<<>>, 0)
             ELSE parse_expression_statement(
                      CallText(input.elements, input.stages) \o <<";", "EOF">>)>>
    /\ UNCHANGED <<machineVars, input>>

PipeNext == ParsePipe

SpecPipe == InitPipe /\ [][PipeNext]_vars

----------------------------------------------------------------------------
(* The type grammar (Parser.parse_var_type), called on its own *)

\* suffixes of one type
MaxSuffixes == 3

RECURSIVE parse_var_type(_, _)
RECURSIVE var_type_suffixes(_, _, _)
RECURSIVE parse_array_type(_, _, _)
RECURSIVE parse_set_or_map_type(_, _, _, _)

\* Parser.parse_var_type (no `func`, float, bool, infer or identifier among
\* the tokens); var_type_suffixes is its loop
parse_var_type(tokens, pos) ==
    CASE token_type(tokens[pos]) = "INT" ->
             var_type_suffixes(tokens, pos + 1, PrimitiveType("INT"))
      [] token_type(tokens[pos]) = "STR" ->
             var_type_suffixes(tokens, pos + 1, PrimitiveType("STR"))
      [] OTHER -> SyntaxError("UnexpectedToken")
var_type_suffixes(tokens, pos, var_type) ==
    IF tokens[pos] \notin {"[", "{"} THEN Parsed(var_type, pos)
    ELSE Bind(IF tokens[pos] = "[" THEN parse_array_type(tokens, pos, var_type)
              ELSE Parsed(var_type, pos),
              LAMBDA array :
                Bind(IF tokens[array.pos] = "{"
                     THEN parse_set_or_map_type(tokens, array.pos, array.node, array.node)
                     ELSE array,
                     LAMBDA wrapped : var_type_suffixes(tokens, wrapped.pos, wrapped.node)))

\* Parser.parse_array_type: one turn of its loop per `[`, new_type being the
\* local of that name
parse_array_type(tokens, pos, new_type) ==
    IF tokens[pos] # "[" THEN Parsed(new_type, pos)
    ELSE Bind(consume(tokens, pos, "["), LAMBDA opened :
           Bind(consume(tokens, opened.pos, "]"), LAMBDA closed :
             parse_array_type(tokens, closed.pos, ArrayType(new_type))))

\* Parser.parse_set_or_map_type: one turn of its loop per `{`; every turn
\* wraps the argument var_type
parse_set_or_map_type(tokens, pos, var_type, new_type) ==
    IF tokens[pos] # "{" THEN Parsed(new_type, pos)
    ELSE IF tokens[pos + 1] = "}"
         THEN parse_set_or_map_type(tokens, pos + 2, var_type, SetType(var_type))
    ELSE Bind(parse_var_type(tokens, pos + 1), LAMBDA key_type :
           Bind(consume(tokens, key_type.pos, "}"), LAMBDA closed :
             parse_set_or_map_type(tokens, closed.pos, var_type,
                                   MapType(key_type.node, var_type))))

\* a type as it is written: a base type and its suffixes, each `[]`, `{}` or
\* `{key}` with a key written the same way
Written(base, suffixes) == [base |-> base, suffixes |-> suffixes]
Keys == {Written("int", <<>>), Written("int", <<[kind |-> "{}", key |-> <<>>]>>)}
SuffixKinds ==
    {[kind |-> "[]", key |-> <<>>], [kind |-> "{}", key |-> <<>>]}
        \cup {[kind |-> "{K}", key |-> k] : k \in Keys}
RECURSIVE SuffixLists(_)
SuffixLists(n) ==
    IF n = 0 THEN {<<>>}
    ELSE LET S == SuffixLists(n - 1)
         IN  S \cup {Append(l, x) : l \in {m \in S : Len(m) = n - 1}, x \in SuffixKinds}

\* the tokens of a written type
RECURSIVE TypeText(_)
RECURSIVE SuffixesText(_)
TypeText(written) == <<written.base>> \o SuffixesText(written.suffixes)
SuffixesText(suffixes) ==
    IF suffixes = <<>> THEN <<>>
    ELSE (CASE Head(suffixes).kind = "[]" -> <<"[", "]">>
            [] Head(suffixes).kind = "{}" -> <<"{", "}">>
            [] OTHER -> <<"{">> \o TypeText(Head(suffixes).key) \o <<"}">>)
           \o SuffixesText(Tail(suffixes))

\* a written type to parse
InitVarType ==
    /\ Fresh
    /\ input \in {Written(base, suffixes) :
                      base \in {"int", "str"}, suffixes \in SuffixLists(MaxSuffixes)}
    /\ output = <<>>

\* Parser.parse_var_type at the first token of the written type
ParseVarType ==
    /\ input # <<>>
    /\ output = <<>>
    /\ output' = <<parse_var_type(TypeText(input) \o <<"EOF">>, 1)>>
    /\ UNCHANGED <<machineVars, input>>

VarTypeNext == ParseVarType

SpecVarType == InitVarType /\ [][VarTypeNext]_vars

----------------------------------------------------------------------------
(* The expression analyzer (semantic/expressions.py) on expression trees *)

StringLiteralNode(value) == [tag |-> "StringLiteral", value |-> value]
SetLiteralNode(elements) == [tag |-> "SetLiteral", elements |-> elements]

\* the symbols the table holds when the expression is analysed, all in the
\* innermost function: two numbers, a string, an array, a function and an
\* instance of a template with three attributes; `u` is not declared
Point ==
    TemplateType(CustomTypeIdentifier("Point"),
                 <<<<"x", PrimitiveType("INT")>>, <<"s", PrimitiveType("STR")>>,
                   <<"a", ArrayType(PrimitiveType("INT"))>>>>,
                 <<>>)
Environment ==
    [i |-> PrimitiveType("INT"), d |-> PrimitiveType("FLOAT"),
     s |-> PrimitiveType("STR"), a |-> ArrayType(PrimitiveType("INT")),
     f |-> FunctionTypeOf(PrimitiveType("INT"), <<>>), p |-> Point]

\* dict.get(key): the value under the key, or None
None == [tag |-> "NoneType"]
get(dict, key) ==
    IF \E n \in DOMAIN dict : dict[n][1] = key
    THEN dict[CHOOSE n \in DOMAIN dict : dict[n][1] = key][2]
    ELSE None

\* the `attributes` of a SetType, MapType or TemplateType object
attributes_of(type) == IF type.tag = "TemplateType" THEN type.attributes ELSE <<>>

\* ExpressionAnalyzer._is_assignable
RECURSIVE is_assignable(_)
is_assignable(node) ==
    CASE isinstance(node, {"Identifier"}) -> TRUE
      [] isinstance(node, {"IndexExpression"}) -> is_assignable(node.array)
      [] OTHER -> FALSE

RECURSIVE analyze_node(_)
RECURSIVE analyze_unary_expression(_)
RECURSIVE analyze_function_call_expression_node(_)
RECURSIVE analyze_index_expression_node(_)
RECURSIVE analyze_member_access_expression(_)
RECURSIVE element_types(_, _, _)
RECURSIVE analyze_array_literal(_)
RECURSIVE analyze_set_literal(_)

\* ExpressionAnalyzer.analyze_identifier
analyze_identifier_node(node) ==
    IF node.name \in DOMAIN Environment THEN Type(Environment[node.name])
    ELSE Raise("NotDeclared")

\* ExpressionAnalyzer.analyze_unary_expression
analyze_unary_expression(node) ==
    Bind(analyze_node(node.operand), LAMBDA operand_type :
      CASE node.operator = "!" ->
               IF ~eq(operand_type.type, PrimitiveType("BOOL"))
               THEN Raise("InvalidOperandType")
               ELSE Type(PrimitiveType("BOOL"))
        [] node.operator = "-" ->
               IF operand_type.type \notin {PrimitiveType("INT"), PrimitiveType("FLOAT")}
               THEN Raise("InvalidOperandType")
               ELSE operand_type
        [] node.operator \in {"++", "--"} ->
               IF ~is_assignable(node.operand) THEN Raise("InvalidAssignmentTarget")
               ELSE IF operand_type.type \notin {PrimitiveType("INT"), PrimitiveType("FLOAT")}
                    THEN Raise("InvalidOperandType")
                    ELSE operand_type
        [] OTHER -> Raise("InvalidUseOfOperator"))

\* ExpressionAnalyzer.analyze_function_call_expression, of a call without
\* arguments
analyze_function_call_expression_node(node) ==
    Bind(IF isinstance(node.callee, {"Identifier"})
         THEN IF node.callee.name \notin DOMAIN Environment THEN Raise("NotDeclared")
              ELSE IF Environment[node.callee.name].tag # "FunctionType"
                   THEN Raise("NotAFunction")
                   ELSE Type(Environment[node.callee.name])
         ELSE Bind(analyze_node(node.callee), LAMBDA node_type :
                IF node_type.type.tag # "FunctionType" THEN Raise("NotAFunction")
                ELSE node_type),
         LAMBDA function_type :
           IF Len(node.args) # Len(function_type.type.param_types)
           THEN Raise("ArgumentCount")
           ELSE Type(function_type.type.return_type))

\* ExpressionAnalyzer.analyze_index_expression
analyze_index_expression_node(node) ==
    Bind(analyze_node(node.index), LAMBDA index_type :
      IF ~eq(index_type.type, PrimitiveType("INT")) THEN Raise("ArrayIndexMustBeInteger")
      ELSE Bind(analyze_node(node.array), LAMBDA array_type :
             IF array_type.type.tag # "ArrayType" THEN Raise("IndexingNonArray")
             ELSE Type(array_type.type.element_type)))

\* ExpressionAnalyzer.analyze_member_access_expression
analyze_member_access_expression(node) ==
    Bind(analyze_node(node.obj), LAMBDA obj_type :
      IF obj_type.type.tag \notin {"SetType", "MapType", "TemplateType"}
      THEN Raise("NoMembers")
      ELSE IF get(attributes_of(obj_type.type), node.member) = None
           THEN Raise("MemberNotDefined")
           ELSE Type(get(attributes_of(obj_type.type), node.member)))

\* the loop of analyze_array_literal and analyze_set_literal from the n-th
\* element on: every element is analysed and compared with element_type
element_types(elements, n, element_type) ==
    IF n > Len(elements) THEN Type(element_type)
    ELSE Bind(analyze_node(elements[n]), LAMBDA type :
           IF ~eq(type.type, element_type) THEN Raise("InvalidElementType")
           ELSE element_types(elements, n + 1, element_type))

\* ExpressionAnalyzer.analyze_array_literal
analyze_array_literal(node) ==
    IF node.elements = <<>> THEN Type(ArrayType(VoidType))
    ELSE Bind(analyze_node(node.elements[1]), LAMBDA element_type :
           Bind(element_types(node.elements, 1, element_type.type), LAMBDA checked :
             Type(ArrayType(element_type.type))))

\* ExpressionAnalyzer.analyze_set_literal
analyze_set_literal(node) ==
    IF node.elements = <<>> THEN Type(SetType(VoidType))
    ELSE Bind(analyze_node(node.elements[1]), LAMBDA element_type :
           Bind(element_types(node.elements, 1, element_type.type), LAMBDA checked :
             Type(SetType(element_type.type))))

\* SemanticAnalyzer.analyze, on an expression in a reachable scope; no type
\* here is a CustomTypeIdentifier to look up
analyze_node(node) ==
    CASE node.tag = "Identifier" -> analyze_identifier_node(node)
      [] node.tag = "NumericLiteral" -> Type(PrimitiveType("INT"))
      [] node.tag = "StringLiteral" -> Type(PrimitiveType("STR"))
      [] node.tag = "UnaryExpression" -> analyze_unary_expression(node)
      [] node.tag = "FunctionCallExpression" -> analyze_function_call_expression_node(node)
      [] node.tag = "IndexExpression" -> analyze_index_expression_node(node)
      [] node.tag = "MemberAccessExpression" -> analyze_member_access_expression(node)
      [] node.tag = "ArrayLiteral" -> analyze_array_literal(node)
      [] node.tag = "SetLiteral" -> analyze_set_literal(node)

\* the depth of the operand of a unary expression
MaxOperandDepth == 2
\* the elements of a literal
MaxElements == 3

\* operands: an identifier, a literal or a call, under at most n indexes,
\* member accesses and calls
RECURSIVE Operands(_)
Operands(n) ==
    IF n = 0
    THEN {IdentifierNode(name) : name \in {"i", "d", "s", "a", "f", "p", "u"}}
           \cup {NumericLiteralNode("5")}
    ELSE LET S == Operands(n - 1)
         IN  S \cup {IndexExpressionNode(e, index) :
                        e \in S, index \in {NumericLiteralNode("5"), IdentifierNode("s")}}
               \cup {MemberAccessExpressionNode(e, member) :
                        e \in S, member \in {"x", "s", "a", "z"}}
               \cup {FunctionCallExpressionNode(e, <<>>) : e \in S}

\* elements of a literal: numbers, strings, and arrays of them
Elements ==
    {NumericLiteralNode("5"), StringLiteralNode("hello"), ArrayLiteralNode(<<>>),
     ArrayLiteralNode(<<NumericLiteralNode("5")>>),
     ArrayLiteralNode(<<StringLiteralNode("hello")>>)}
ElementLists == UNION {[1..n -> Elements] : n \in 0..MaxElements}

\* one expression to analyse: `++` or `--` on an operand, or a literal
InitExpression ==
    /\ Fresh
    /\ input \in {<<node>> : node \in
          {UnaryExpressionNode(operator, operand, position) :
               operator \in {"++", "--"}, operand \in Operands(MaxOperandDepth),
               position \in {"PRE", "POST"}}
            \cup {ArrayLiteralNode(elements) : elements \in ElementLists}
            \cup {SetLiteralNode(elements) : elements \in ElementLists}}
    /\ output = <<>>

\* analyze(node)
AnalyzeExpression ==
    /\ input # <<>>
    /\ output = <<>>
    /\ output' = <<analyze_node(input[1])>>
    /\ UNCHANGED <<machineVars, input>>

ExpressionNext == AnalyzeExpression

SpecExpression == InitExpression /\ [][ExpressionNext]_vars

----------------------------------------------------------------------------
(* Template declarations (analyze_template_declaration) *)

\* symbol_table.define for each name in turn, all with one type
RECURSIVE define_items(_, _, _)
define_items(s, names, var_type) ==
    IF names = <<>> THEN [error |-> "none", scopes |-> s]
    ELSE IF ~define_ok(s, Head(names)) THEN [error |-> "KeyError", scopes |-> s]
    ELSE define_items(define(s, Head(names), var_type), Tail(names), var_type)

\* analyze_function_declaration with a template as context, up to the
\* statements of the method's body.  attributes are the names of the
\* template's attributes (all int), methods the names of the methods
\* analyzed before this one; the method is declared void and its body has no
\* return statement, so that its FunctionType is never read or rewritten
open_method(s, fr, attributes, methods, method) ==
    LET named == define(s, method.name, "method")
        entered == enter_scope(named, NewId(named), Node("FunctionDeclaration", 0))
        with_attributes == define_items(entered, attributes, "int")
        with_methods == define_items(with_attributes.scopes, methods, "method")
        with_params == define_params(with_methods.scopes, method.params)
    IN  IF lookup(s, method.name, TRUE) # NoSymbol THEN Outcome("RedeclareFunction", s, fr)
        ELSE IF ~define_ok(s, method.name) THEN Outcome("KeyError", s, fr)
        ELSE IF with_attributes.error # "none"
        THEN Outcome(with_attributes.error, with_attributes.scopes, fr)
        ELSE IF with_methods.error # "none"
        THEN Outcome(with_methods.error, with_methods.scopes, fr)
        ELSE IF with_params.error # "none"
        THEN Outcome(with_params.error, with_params.scopes, fr)
        ELSE Outcome("running", with_params.scopes, fr)

\* the end of analyze_template_declaration: the template's own name
define_template(s, fr, name) ==
    IF ~define_ok(s, name) THEN Outcome("KeyError", s, fr)
    ELSE Outcome("running", define(s, name, "template"), fr)

\* the handler waiting for the body of a method of the template
TemplateFrame(name, attributes, methods) ==
    [kind |-> "TemplateMethod", cond |-> "none", else_block |-> FALSE,
     then_reachable |-> TRUE, name |-> name, var_type |-> NoType, returns |-> <<>>,
     attributes |-> attributes, done |-> <<>>, method |-> Head(methods).name,
     rest |-> Tail(methods)]

\* `template name = { attributes, methods` up to the statements of the first
\* method's body, or to the end if the template has no method
TemplateDeclaration(name, attributes, methods) ==
    /\ Running /\ Room(1)
    /\ LET o == analyze(
                  IF lookup(scopes, name, FALSE) # NoSymbol
                  THEN Outcome("RedeclareTemplate", scopes, fnRet)
                  ELSE IF methods = <<>> THEN define_template(scopes, fnRet, name)
                  ELSE open_method(scopes, fnRet, attributes, <<>>, Head(methods)))
       IN  /\ FinishNode(o, [op |-> "TemplateDeclaration", arg |-> name,
                             methods |-> methods])
           /\ frames' = IF o.status = "running" /\ methods # <<>>
                        THEN Append(frames, TemplateFrame(name, attributes, methods))
                        ELSE frames
    /\ UNCHANGED <<nextId, tableVars, pureVars>>

\* `}` closing the body of a method: the end of analyze_function_declaration,
\* then the next method up to the statements of its body, or the end of
\* analyze_template_declaration
CloseTemplateMethod ==
    /\ Running /\ Top(frames).kind = "TemplateMethod"
    /\ LET frame == Top(frames)
           done == Append(frame.done, frame.method)
           x == ExitOutcome(scopes, fnRet)
           o == IF x.status # "running" THEN x
                ELSE IF frame.rest = <<>> THEN define_template(x.scopes, fnRet, frame.name)
                ELSE open_method(x.scopes, fnRet, frame.attributes, done, Head(frame.rest))
       IN  /\ FinishNode(o, [op |-> "CloseTemplateMethod", arg |-> frame.name,
                             methods |-> frame.rest])
           /\ frames' = IF o.status = "running" /\ frame.rest # <<>>
                        THEN [frames EXCEPT ![Len(frames)] =
                                 [frame EXCEPT !.done = done,
                                               !.method = Head(frame.rest).name,
                                               !.rest = Tail(frame.rest)]]
                        ELSE SubSeq(frames, 1, Len(frames) - 1)
    /\ UNCHANGED <<nextId, tableVars, pureVars>>

\* the methods of a template: a dict, so their names differ
MethodDeclarations ==
    {[name |-> name, params |-> params] : name \in {"f", "x"}, params \in {<<>>, <<"x">>}}
MethodLists ==
    {<<>>} \cup {<<m>> : m \in MethodDeclarations}
      \cup {ms \in {<<m, n>> : m \in MethodDeclarations, n \in MethodDeclarations} :
                ms[1].name # ms[2].name}

\* programs of template declarations, with variables, blocks and uses of
\* names around and inside the methods; no template is declared in the body
\* of a method
Flat == Len(scopes') < MaxDepth - 1
TemplateNext ==
    \/ AnalyzeProgram
    \/ EndProgram
    \/ BlockStatement /\ Flat
    \/ CloseBlock
    \/ \E e \in {"int", "x", "f"} : EchoStatement(e)
    \/ \E name \in {"x", "f"} : VariableDeclaration(name, "int", "int")
    \/ \E name \in {"x", "y"}, attributes \in {<<>>, <<"x">>}, methods \in MethodLists :
           TemplateDeclaration(name, attributes, methods) /\ Flat
    \/ CloseTemplateMethod

SpecTemplate == Init /\ [][TemplateNext]_vars

Next ==
    \/ ScopeNext \/ FlowNext \/ LoopNext \/ BranchNext \/ TypeNext
    \/ TypesNext \/ StatementNext \/ PipeNext \/ VarTypeNext \/ ExpressionNext \/ TemplateNext

\* every program of the model
Spec == Init /\ [][Next]_vars
\* programs of declarations and uses of names
SpecScope == Init /\ [][ScopeNext]_vars
\* programs of control flow
SpecFlow == Init /\ [][FlowNext]_vars
\* programs of loops
SpecLoop == Init /\ [][LoopNext]_vars
\* programs of if statements
SpecBranch == Init /\ [][BranchNext]_vars
SpecType == Init /\ [][TypeNext]_vars

----------------------------------------------------------------------------
(* Properties of the symbol table, checked under SpecTable *)

TableStep(op) == call'.op = op /\ ops' = ops + 1

Max(S) == CHOOSE m \in S : \A k \in S : k <= m

\* C1: the scope stack is never empty and its bottom element stays the scope
\* the table was constructed with; exit_scope pops exactly the top scope when
\* more than one scope is on the stack, and with only the global scope left it
\* raises IndexError and leaves the stack as it was.
C1_GlobalScopeNeverPopped ==
    /\ [](Len(scopes) >= 1 /\ scopes[1].id = 0 /\ scopes[1].parent_node = NoNode)
    /\ [][TableStep("exit_scope") =>
            IF Len(scopes) > 1
            THEN /\ call'.error = "none"
                 /\ scopes' = SubSeq(scopes, 1, Len(scopes) - 1)
            ELSE /\ call'.error = "IndexError"
                 /\ scopes' = scopes]_vars

\* exit_scope was refused on the global scope, after a scope had been pushed
\* and popped and a symbol had been defined in the global scope
C1_Witness ==
    /\ call.op = "exit_scope" /\ call.error = "IndexError"
    /\ Len(scopes) = 1 /\ nextId > 1
    /\ \E n \in Names : scopes[1].symbols[n] # NoType

\* C2: define raises KeyError, changing no scope, exactly when the name is a
\* key of the innermost scope; otherwise (also when enclosing scopes define
\* the name) it adds the symbol to the innermost scope and touches no other.
C2_DefineChecksCurrentScopeOnly ==
    [][TableStep("define") =>
        IF Top(scopes).symbols[call'.name] # NoType
        THEN call'.error = "KeyError" /\ scopes' = scopes
        ELSE /\ call'.error = "none"
             /\ Len(scopes') = Len(scopes)
             /\ \A i \in 1..(Len(scopes) - 1) : scopes'[i] = scopes[i]
             /\ Top(scopes') = [Top(scopes) EXCEPT !.symbols[call'.name] = call'.var_type]]_vars

\* a define succeeded for a name that an enclosing scope defines too
C2_Witness ==
    /\ call.op = "define" /\ call.error = "none"
    /\ Len(scopes) >= 2
    /\ Top(scopes).symbols[call.name] # NoType
    /\ \E i \in 1..(Len(scopes) - 1) : scopes[i].symbols[call.name] # NoType

\* the innermost scope at or above index lo that defines name, 0 if none
InnermostDefining(s, lo, name) ==
    LET D == {i \in lo..Len(s) : s[i].symbols[name] # NoType}
    IN  IF D = {} THEN 0 ELSE Max(D)

\* the nearest scope opened by a function declaration, the bottom scope if none
FunctionBoundary(s) ==
    LET F == {i \in 1..Len(s) : s[i].parent_node.kind = "FunctionDeclaration"}
    IN  IF F = {} THEN 1 ELSE Max(F)

SymbolAt(s, i, name) == IF i = 0 THEN NoSymbol ELSE Symbol(s[i], name)

\* C3: lookup(name, TRUE) returns the symbol of the innermost scope defining
\* name among the scopes from the current one out to and including the nearest
\* function-declaration scope, and nothing when name is defined only outside
\* it; lookup(name, FALSE) returns the innermost definition of the whole stack.
C3_LookupStopsAfterFunctionBoundary ==
    \A name \in Names :
        /\ lookup(scopes, name, TRUE) =
               SymbolAt(scopes, InnermostDefining(scopes, FunctionBoundary(scopes), name), name)
        /\ lookup(scopes, name, FALSE) =
               SymbolAt(scopes, InnermostDefining(scopes, 1, name), name)

\* x is found exactly at the function-boundary scope although the global
\* scope defines it too, and y, defined only outside the function, is not
\* found by the limited lookup but is by the unlimited one
C3_Witness ==
    /\ Len(scopes) >= 3
    /\ FunctionBoundary(scopes) = 2
    /\ scopes[2].parent_node.kind = "FunctionDeclaration"
    /\ scopes[1].symbols["x"] # NoType /\ scopes[2].symbols["x"] # NoType
    /\ Top(scopes).symbols["x"] = NoType
    /\ lookup(scopes, "x", TRUE).owner = scopes[2].id
    /\ scopes[1].symbols["y"] # NoType
    /\ lookup(scopes, "y", TRUE) = NoSymbol
    /\ lookup(scopes, "y", FALSE).owner = 0

\* C4: is_reachable() is true iff every scope on the stack has its reachable
\* flag set; set_unreachable() clears the flag of the innermost scope only;
\* once a scope is popped, is_reachable() is what it was before that scope
\* was pushed.
C4_ReachabilityIsConjunction ==
    /\ [](is_reachable(scopes) <=> \A i \in 1..Len(scopes) : scopes[i].reachable)
    /\ [][TableStep("set_unreachable") =>
            scopes' = [scopes EXCEPT ![Len(scopes)].reachable = FALSE]]_vars
    /\ [][(TableStep("exit_scope") /\ call'.error = "none") =>
            is_reachable(scopes') = reachLog[Len(reachLog)]]_vars

\* a scope marked unreachable was popped and the stack is reachable again
C4_Witness ==
    /\ call.op = "exit_scope" /\ call.error = "none" /\ ~call.popped
    /\ Len(scopes) >= 2
    /\ is_reachable(scopes)

----------------------------------------------------------------------------
(* Properties of the analyzer.  A statement "is analyzed" in a step from a
   running state whose scope chain is reachable; `last` names the statement
   of the latest step. *)

\* the step analyzes a statement `op`, with every scope of the chain reachable
Analyzes(op) == status = "running" /\ is_reachable(scopes) /\ last'.op = op

FunctionBodyKinds == {"FunctionDeclaration", "FunctionLiteral"}

\* walking outward from the innermost scope of s, a loop scope is met before
\* any scope opened by a function body
LoopBeforeFunctionBody(s) ==
    \E i \in 1..Len(s) :
        /\ s[i].parent_node.kind \in LoopKinds
        /\ \A j \in (i + 1)..Len(s) : s[j].parent_node.kind \notin FunctionBodyKinds

\* C5: a halt or skip statement is accepted if and only if, walking the scope
\* stack outward from the current scope, a scope opened by a while, range or
\* each statement is met before any scope opened by a function body;
\* otherwise analysis raises the 'not valid outside of a loop block' error.
C5_HaltSkipOnlyInsideLoop ==
    [][Analyzes("HaltStatement") \/ Analyzes("SkipStatement") =>
          IF LoopBeforeFunctionBody(scopes)
          THEN status' = "running"
          ELSE status' = "NotInLoop"]_vars

\* the steps that analyze a statement, and the steps that end a block
StatementOps ==
    {"VariableDeclaration", "EchoStatement", "AssignmentExpression", "IndexAssignment",
     "HaltStatement", "SkipStatement", "ReturnStatement", "BlockStatement", "IfStatement",
     "WhileStatement", "RangeStatement", "EachStatement", "FunctionDeclaration",
     "FunctionLiteral", "EchoFunctionLiteral"}
CloseOps ==
    {"CloseBlock", "CloseThen", "CloseElse", "CloseLoop", "CloseFunctionDeclaration",
     "CloseFunctionLiteral", "CloseEchoFunctionLiteral", "EndProgram"}
TerminatorOps == {"ReturnStatement", "HaltStatement", "SkipStatement"}

\* the latest step analyzed a return, halt or skip statement successfully
Terminated == status = "running" /\ last.op \in TerminatorOps

\* C6: after a return, halt or skip statement has been analyzed successfully
\* in a block, a statement that follows it in the same block raises
\* 'Unreachable code detected'; if the block ends there instead, nothing is
\* raised for it (an else block after the then block of `if true` is an error
\* of the if statement, whatever the then block ends with); and once the
\* enclosing loop or function declaration has ended, the scope chain is
\* reachable again, and a statement analyzed with a reachable scope chain
\* never raises 'Unreachable code detected'.
C6_UnreachableAfterTerminator ==
    /\ [][Terminated /\ last'.op \in StatementOps => status' = "Unreachable"]_vars
    /\ [][Terminated /\ last'.op \in CloseOps =>
             \/ status' \in {"running", "done"}
             \/ last'.op = "CloseThen" /\ status' = "UnreachableElse"]_vars
    /\ [][status = "running" /\ last'.op \in {"CloseLoop", "CloseFunctionDeclaration"} =>
             status' = "running" /\ is_reachable(scopes')]_vars
    /\ [][status = "running" /\ is_reachable(scopes) => status' # "Unreachable"]_vars

\* inside a function declaration, an echo statement that followed a halt or
\* skip in the body of a while loop raised 'Unreachable code detected'
C6_Witness ==
    /\ status = "Unreachable" /\ last.op = "EchoStatement"
    /\ Top(scopes).parent_node.kind = "WhileStatement" /\ ~Top(scopes).reachable
    /\ \E i \in 1..Len(scopes) : scopes[i].parent_node.kind = "FunctionDeclaration"

\* the positions of the scopes of s that were opened by a function declaration
FunctionScopes(s) == {i \in 1..Len(s) : s[i].parent_node.kind = "FunctionDeclaration"}

\* the return type, as it stands, of the innermost enclosing function declaration
EnclosingReturnType(s, fr) == fr[s[Max(FunctionScopes(s))].parent_node.fn]

\* the type of the expression of `return e;`, void for a bare return
ReturnedType(s, e) == IF e = NoExpr THEN Type("void") ELSE analyze_expression(s, fnRet, e)

\* C7: a return statement is accepted only when some enclosing scope was
\* opened by a function declaration; with no scope opened by a function
\* (declaration or literal) around it, it raises 'Return statement is not
\* valid outside of a function block'; and inside a function declaration
\* whose return type is not infer (a declared type other than infer never
\* changes), it raises the return type error whenever the type of the
\* returned expression, void for a bare return, differs from that type.
C7_ReturnOnlyInsideFunction ==
    /\ [][Analyzes("ReturnStatement") /\ status' = "running" =>
             FunctionScopes(scopes) # {}]_vars
    /\ [][/\ Analyzes("ReturnStatement")
          /\ \A i \in 1..Len(scopes) : scopes[i].parent_node.kind \notin FunctionBodyKinds
          => status' = "ReturnOutsideFunction"]_vars
    /\ [][/\ Analyzes("ReturnStatement")
          /\ FunctionScopes(scopes) # {}
          /\ EnclosingReturnType(scopes, fnRet) # "infer"
          /\ ReturnedType(scopes, last'.arg).error = "none"
          /\ ReturnedType(scopes, last'.arg).type # EnclosingReturnType(scopes, fnRet)
          => status' = "ReturnTypeMismatch"]_vars

\* a bare return in a while loop inside a function declared to return int
\* raised the return type error
C7_Witness ==
    /\ status = "ReturnTypeMismatch"
    /\ last = [op |-> "ReturnStatement", arg |-> NoExpr]
    /\ Top(scopes).parent_node.kind = "WhileStatement"
    /\ FunctionScopes(scopes) # {} /\ EnclosingReturnType(scopes, fnRet) = "int"

\* the step declares a variable: a variable declaration whose initializer has
\* been analyzed without an error (the only error of an initializer here is an
\* undeclared identifier), also one whose initializer is a function literal
\* that ends
DeclaresVariable ==
    /\ status = "running" /\ is_reachable(scopes)
    /\ last'.op \in {"VariableDeclaration", "CloseFunctionLiteral"}
    /\ status' # "NotDeclared"

\* the scope stack the declaration is checked against: a function literal's
\* two scopes are gone when the declaration it initializes is checked
DeclarationScopes ==
    IF last'.op = "CloseFunctionLiteral" THEN SubSeq(scopes, 1, Len(scopes) - 2) ELSE scopes

\* the outermost scope of s that is not outside the innermost enclosing
\* function declaration
FunctionFloor(s) == IF FunctionScopes(s) = {} THEN 1 ELSE Max(FunctionScopes(s))

DefinedIn(s, i, name) == s[i].symbols[name] # NoType

\* C8 as stated: declaring a variable whose name is defined in the current
\* scope always raises 'Cannot redeclare', and declaring a variable whose name
\* is defined in an enclosing scope (and not in the current one) always
\* raises 'Cannot shadow'.
C8_ShadowAlways ==
    [][DeclaresVariable =>
          LET s == DeclarationScopes
              name == last'.arg
          IN  IF DefinedIn(s, Len(s), name) THEN status' = "Redeclare"
              ELSE (\E i \in 1..(Len(s) - 1) : DefinedIn(s, i, name)) => status' = "Shadow"]_vars

\* C8, amended: declaring a variable whose name is defined in the current
\* scope always raises 'Cannot redeclare'; declaring one whose name is
\* defined, not in the current scope, but in an enclosing scope that is not
\* outside the innermost enclosing function declaration always raises 'Cannot
\* shadow'; a name defined only outside that function declaration raises
\* neither.
C8_ShadowWithinFunction ==
    [][DeclaresVariable =>
          LET s == DeclarationScopes
              name == last'.arg
          IN  IF DefinedIn(s, Len(s), name) THEN status' = "Redeclare"
              ELSE IF \E i \in FunctionFloor(s)..(Len(s) - 1) : DefinedIn(s, i, name)
                   THEN status' = "Shadow"
              ELSE status' \notin {"Redeclare", "Shadow"}]_vars

\* in a block nested in a function declaration, declaring a name that the
\* function's own scope defines raised 'Cannot shadow'
C8_Witness ==
    /\ status = "Shadow" /\ last.op = "VariableDeclaration"
    /\ FunctionScopes(scopes) # {} /\ Max(FunctionScopes(scopes)) < Len(scopes)
    /\ DefinedIn(scopes, Max(FunctionScopes(scopes)), last.arg)
    /\ ~DefinedIn(scopes, Len(scopes), last.arg)

\* the step reads the identifier last'.arg, assigns to it, or assigns to an
\* element of it, with every scope of the chain reachable.  An element
\* assignment analyzes the index first and raises 'Array index must be an
\* integer' without looking the identifier up when the index is no integer.
UseOps == {"EchoStatement", "AssignmentExpression", "IndexAssignment"}
UsesIdentifier ==
    /\ status = "running" /\ is_reachable(scopes)
    /\ last'.op \in UseOps /\ last'.arg \in Names
    /\ status' # "IndexNotInteger"

\* name is defined in a scope of s that is not outside the innermost
\* enclosing function declaration
DefinedInsideFunction(s, name) == \E i \in FunctionFloor(s)..Len(s) : DefinedIn(s, i, name)

\* C9: inside the body of a function declaration, at any block nesting depth
\* within it, reading an identifier, assigning to it, or assigning to an
\* element of it raises the 'not declared' name error whenever no scope of
\* the function defines the name, also when a scope outside the function
\* (the global scope included) defines it; a name that a scope of the
\* function defines (a parameter or a local) never raises it.
C9_FunctionBodySeesOnlyItsOwnNames ==
    [][UsesIdentifier /\ FunctionScopes(scopes) # {} =>
          IF DefinedInsideFunction(scopes, last'.arg)
          THEN status' # "NotDeclared"
          ELSE status' = "NotDeclared"]_vars

\* in a block nested in the body of a function declaration, an assignment to
\* a name that only scopes outside the function define raised 'not declared'
C9_Witness ==
    /\ status = "NotDeclared" /\ last.op = "AssignmentExpression"
    /\ FunctionScopes(scopes) # {} /\ FunctionFloor(scopes) < Len(scopes)
    /\ ~DefinedInsideFunction(scopes, last.arg)
    /\ \E i \in 1..(FunctionFloor(scopes) - 1) : DefinedIn(scopes, i, last.arg)

\* the positions of the scopes of s that were opened by a function literal
FunctionLiteralScopes(s) == {i \in 1..Len(s) : s[i].parent_node.kind = "FunctionLiteral"}

\* name is defined in a scope of the innermost enclosing function literal
DefinedInsideFunctionLiteral(s, name) ==
    \E i \in Max(FunctionLiteralScopes(s))..Len(s) : DefinedIn(s, i, name)

\* C10: the language has no closures: inside the body of a function literal,
\* an identifier that only scopes enclosing the literal define (a local of the
\* surrounding block or function, or a global) is not visible, and reading or
\* assigning it raises the 'not declared' name error.
C10_NoClosures ==
    [][/\ UsesIdentifier
       /\ FunctionLiteralScopes(scopes) # {}
       /\ ~DefinedInsideFunctionLiteral(scopes, last'.arg)
       => status' = "NotDeclared"]_vars

----------------------------------------------------------------------------
(* Properties of if statements, checked under SpecBranch *)

\* the step ends the then block of an if statement whose condition is `cond`
EndsThen(cond) ==
    status = "running" /\ last'.op = "CloseThen" /\ Top(frames).cond = cond

\* the step ends the else block of an if statement whose condition is `cond`
EndsElse(cond) ==
    status = "running" /\ last'.op = "CloseElse" /\ Top(frames).cond = cond

\* C11: for an if statement whose condition is not a boolean literal, the
\* enclosing scope is unreachable after the statement if and only if there is
\* an else block and both the then block and the else block ended
\* unreachable; without an else block the enclosing scope stays reachable.
\* (The handler keeps how the then block ended in then_reachable.)
C11_UnreachableIffBothBranches ==
    /\ [][EndsThen("bool") /\ ~Top(frames).else_block =>
             status' = "running" /\ Top(scopes').reachable]_vars
    /\ [][EndsThen("bool") /\ Top(frames).else_block =>
             /\ status' = "running"
             /\ Top(frames').then_reachable = Top(scopes).reachable]_vars
    /\ [][EndsElse("bool") =>
             /\ status' = "running"
             /\ Top(scopes').reachable =
                    (Top(frames).then_reachable \/ Top(scopes).reachable)]_vars

\* inside the else block of an if/else whose then block ended unreachable, a
\* nested if/else with both blocks ended unreachable has just made that else
\* block unreachable
C11_Witness ==
    /\ status = "running" /\ last.op = "CloseElse"
    /\ Top(frames).kind = "Else" /\ Top(frames).cond = "bool"
    /\ ~Top(frames).then_reachable
    /\ ~Top(scopes).reachable

\* C12: given `if (true) { A } else { B }`, once A has been analyzed the
\* analysis raises 'Unreachable else block', and no scope is opened for B;
\* given `if (false) { A } else { B }` or `if (false) { A }` with statements
\* in A, the analysis raises 'Unreachable if block' with no scope opened for A
\* or B.
C12_UnreachableBranchOfLiteralCondition ==
    /\ [][EndsThen("true") /\ Top(frames).else_block =>
             /\ status' = "UnreachableElse"
             /\ scopes' = SubSeq(scopes, 1, Len(scopes) - 1)]_vars
    /\ [][/\ Analyzes("IfStatement")
          /\ last'.arg.cond = "false" /\ last'.arg.then_statements
          => status' = "UnreachableIf" /\ scopes' = scopes /\ frames' = frames]_vars

\* the else block of an `if (true)` nested in a function declaration was
\* refused after the then block had been analyzed with statements in it
C12_Witness ==
    /\ status = "UnreachableElse" /\ last.op = "CloseThen"
    /\ Top(frames).kind = "FunctionDeclaration"

----------------------------------------------------------------------------
(* Properties of types, checked under SpecType *)

\* the symbol a name is bound to in the innermost scope
Bound(s, name) == Top(s).symbols[name]

\* C13: every `infer x = E;` that is accepted defines x in the current scope
\* with the type computed for E, which is not the infer placeholder; and an
\* assignment `x = V;` to a visible x whose type is not the type of V raises a
\* type mismatch.
C13_InferTakesInitializerType ==
    /\ [][\A init \in TypedExprs :
             /\ status = "running" /\ is_reachable(scopes)
             /\ VariableDeclaration("x", "infer", init)
             /\ status' = "running"
             => /\ Bound(scopes', "x") = analyze_expression(scopes, fnRet, init).type
                /\ Bound(scopes', "x") # "infer"]_vars
    /\ [][\A value \in {"int", "string"} :
             /\ status = "running" /\ is_reachable(scopes)
             /\ AssignmentExpression("x", value)
             /\ analyze_identifier(scopes, "x").error = "none"
             /\ analyze_identifier(scopes, "x").type # value
             => status' = "TypeMismatch"]_vars

\* a reachable declaration `var_type x = 5;` of a name that is not declared yet
DeclaresInt(var_type) ==
    /\ status = "running" /\ is_reachable(scopes)
    /\ lookup(scopes, "x", TRUE) = NoSymbol
    /\ last'.op = "VariableDeclaration" /\ last'.var_type = var_type /\ last'.init = "int"

\* C14 as stated: every declaration `Type x = 5;` with a declared type other
\* than int raises a type mismatch.
C14_EveryOtherTypeMismatches ==
    [][\A var_type \in DeclaredTypes \ {"int"} :
          DeclaresInt(var_type) => status' = "TypeMismatch"]_vars

\* C14: every declaration `Type x = 5;` with a declared type other than int,
\* the infer placeholder and a type name raises a type mismatch.
C14_ResolvedTypeMismatches ==
    [][\A var_type \in DeclaredTypes \ ({"int", "infer"} \cup Names) :
          DeclaresInt(var_type) => status' = "TypeMismatch"]_vars

\* `int[] x = 5;` inside a function body was refused
C14_Witness ==
    /\ status = "TypeMismatch" /\ last.op = "VariableDeclaration"
    /\ last.var_type = "int[]" /\ last.init = "int"
    /\ Top(frames).kind = "FunctionDeclaration"

----------------------------------------------------------------------------
(* Properties of inferred return types, checked under SpecFlow and SpecType *)

\* C15: when a return statement in the body of a function is analyzed, the
\* return type of the function is not the infer placeholder any more: a pass
\* over the return statements of the body has fixed it before the body is
\* analyzed, and the return is checked against the type it fixed.
C15_ReturnTypeFixedBeforeBody ==
    [][/\ Analyzes("ReturnStatement") /\ status' = "running"
       /\ get_current_function_type(scopes) # 0
       => /\ fnRet[get_current_function_type(scopes)] # "infer"
          /\ fnRet' = fnRet]_vars

\* a step rewrites the return type of the k-th function declaration
Rewrites(k) == fnRet[k] # "none" /\ fnRet'[k] # fnRet[k]

\* the return type of a declared function changes only from the infer
\* placeholder to a resolved type
RewrittenOnlyFromInfer ==
    [][\A k \in 1..MaxFns : Rewrites(k) => fnRet[k] = "infer" /\ fnRet'[k] # "infer"]_vars

\* C20: the return type of a function is rewritten only from the infer
\* placeholder to a resolved type, hence at most once, and once a return
\* statement of the function has been analyzed it is not the infer placeholder.
C20_ReturnTypeRewrittenOnce ==
    /\ RewrittenOnlyFromInfer
    /\ [][/\ Analyzes("ReturnStatement") /\ status' = "running"
          /\ get_current_function_type(scopes) # 0
          => fnRet'[get_current_function_type(scopes)] # "infer"]_vars

----------------------------------------------------------------------------
(* Properties of function calls, checked under SpecType *)

\* the call statement `e;` is analyzed with its callee bound to a function
Calling(e) ==
    /\ status = "running" /\ is_reachable(scopes)
    /\ lookup(scopes, callee(e), FALSE).var_type \in FunctionTypes
    /\ last'.op = "FunctionCallExpression" /\ last'.arg = e

\* the parameter types of the function the callee of e is bound to
CalleeParams(e) == param_types(lookup(scopes, callee(e), FALSE).var_type)

\* C18: a call of a function is accepted exactly if it has as many arguments
\* as the function has parameters and each argument has the type of the
\* parameter at its position; a call with another number of arguments raises
\* the arity error, whatever its arguments are.
C18_CallAcceptedIffSignatureMatches ==
    [][\A e \in Calls : Calling(e) =>
          /\ status' = "running" <=>
                 /\ Len(args(e)) = Len(CalleeParams(e))
                 /\ \A i \in 1..Len(args(e)) :
                        analyze_primary(scopes, args(e)[i]) = Type(CalleeParams(e)[i])
          /\ Len(args(e)) # Len(CalleeParams(e)) => status' = "ArityMismatch"]_vars

\* a call with two arguments, the first an undeclared name, of a function of
\* one parameter was refused for its number of arguments
C18_Witness ==
    /\ status = "ArityMismatch" /\ last.op = "FunctionCallExpression"
    /\ last.arg = "f(y,int)"
    /\ lookup(scopes, "y", TRUE) = NoSymbol
    /\ Len(CalleeParams(last.arg)) = 1

----------------------------------------------------------------------------
(* Properties of type equality, checked under SpecTypes *)

Collections == {"ArrayType", "SetType"}

\* the two types compared are arrays, or sets, and one of them has the
\* placeholder as its element type
OneIsEmptyLiteral(a, b) ==
    /\ a.tag \in Collections /\ b.tag = a.tag
    /\ a.element_type = VoidType \/ b.element_type = VoidType

\* the two types compared are maps, and one of them has the placeholder as its
\* key type and as its value type
OneIsEmptyMap(a, b) ==
    /\ a.tag = "MapType" /\ b.tag = "MapType"
    /\ \/ a.key_type = VoidType /\ a.value_type = VoidType
       \/ b.key_type = VoidType /\ b.value_type = VoidType

\* C19: an array or set type whose element type is the Void placeholder
\* equals every array (set) type, on either side of the comparison and
\* also as the element type of two array or set types that are compared; a
\* map type of Void keys and Void values equals every map type; two array, set
\* or map types none of which has the placeholder in these places are equal
\* only if their element types (their key types and their value types) are
\* equal.
C19_VoidIsWildcard ==
    output # <<>> =>
        LET a == input[1]
            b == input[2]
            equal == output[1]
        IN  /\ OneIsEmptyLiteral(a, b) => equal
            /\ (/\ a.tag \in Collections /\ b.tag = a.tag
                /\ OneIsEmptyLiteral(a.element_type, b.element_type)) => equal
            /\ OneIsEmptyMap(a, b) => equal
            /\ (/\ a.tag \in Collections /\ b.tag \in Collections
                /\ ~OneIsEmptyLiteral(a, b) /\ equal)
               => b.tag = a.tag /\ eq(a.element_type, b.element_type)
            /\ (/\ a.tag = "MapType" /\ b.tag = "MapType"
                /\ ~OneIsEmptyMap(a, b) /\ equal)
               => eq(a.key_type, b.key_type) /\ eq(a.value_type, b.value_type)

\* int[][] on the left was found equal to an array of empty array literals
C19_Witness ==
    /\ output = <<TRUE>>
    /\ input[1] = ArrayType(ArrayType(PrimitiveType("INT")))
    /\ input[2] = ArrayType(ArrayType(VoidType))

----------------------------------------------------------------------------
(* Properties of the expression parser, checked under SpecStatement *)

\* the statement parsed is `left = right;`: an expression below the level of
\* assignment, an `=`, and an expression up to the semicolon
IsAssignment(left, right) ==
    /\ left.error = "none" /\ input[left.pos] = "="
    /\ right.error = "none" /\ input[right.pos] = ";"

\* the statement `left = right;` is parsed into an assignment whose target is
\* `left` exactly if `left` is of one of the classes `targets`, and raises a
\* syntax error otherwise
AssignmentAcceptedFor(targets) ==
    output # <<>> =>
        LET left == parse_binary_expression(input, 1, 0)
            right == parse_assignment_expression(input, left.pos + 1)
        IN  IsAssignment(left, right) =>
                IF left.node.tag \in targets
                THEN output[1] = Parsed(ExpressionStatementNode(
                                            AssignmentExpressionNode(left.node, right.node)),
                                        right.pos + 1)
                ELSE output[1].error \in SyntaxErrors

\* C17: a statement `left = right;` is parsed into an AssignmentExpression
\* of left and right, right being everything after the first `=` (so that
\* chained assignments group to the right), if left is an Identifier, an
\* IndexExpression or a MemberAccessExpression, and raises a syntax error for
\* every other left.
C17_AssignmentTargets ==
    AssignmentAcceptedFor({"Identifier", "IndexExpression", "MemberAccessExpression"})

\* what the parser does: member accesses are refused as well
IdentifierAndIndexTargets == AssignmentAcceptedFor({"Identifier", "IndexExpression"})

----------------------------------------------------------------------------
(* Properties of pipe expressions, checked under SpecPipe *)

\* the node an expression written as tokens is parsed into
NodeOf(atom) == parse_expression(atom \o <<"EOF">>, 1).node
NodesOf(atoms) == [i \in 1..Len(atoms) |-> NodeOf(atoms[i])]

\* the call f_k(... f_1(elements, arguments_1) ..., arguments_k)
RECURSIVE NestedCall(_, _)
NestedCall(elements, stages) ==
    LET k == Len(stages)
        first == IF k = 1 THEN NodesOf(elements)
                 ELSE <<NestedCall(elements, SubSeq(stages, 1, k - 1))>>
    IN  FunctionCallExpressionNode(IdentifierNode(stages[k].identifier),
                                   first \o NodesOf(stages[k].arguments))

\* C16: a bracketed list followed by k >= 1 pipe stages is parsed into the
\* nested call in which the first function receives the elements of the list
\* and then its own arguments, and every later function receives the call
\* before it and then its own arguments; that is the node the written-out
\* nested call is parsed into; with no stage the result is the array literal
\* of the elements.
C16_PipeIsNestedCall ==
    output # <<>> =>
        /\ output[1].error = "none"
        /\ output[1].node.tag = "ExpressionStatement"
        /\ IF input.stages = <<>>
           THEN output[1].node.expression = ArrayLiteralNode(NodesOf(input.elements))
           ELSE /\ output[1].node.expression = NestedCall(input.elements, input.stages)
                /\ output[2].error = "none"
                /\ output[1].node = output[2].node

\* `[a, 5] >> f(5) >> g` or the like was parsed
C16_Witness ==
    /\ output # <<>> /\ output[1].error = "none"
    /\ Len(input.elements) = 2 /\ Len(input.stages) = 2
    /\ input.stages[1].parens /\ input.stages[1].arguments # <<>>
    /\ ~input.stages[2].parens
    /\ output[1].node.expression.callee = IdentifierNode(input.stages[2].identifier)

----------------------------------------------------------------------------
(* Properties of the errors a run ends with, checked under SpecScope *)

\* C21: every failing run of analyze ends with a name, type or syntax
\* diagnostic: the errors of the symbol table itself, the KeyError of define
\* and the IndexError of exit_scope, are never reached from analyze.
C21_NoSymbolTableError == status \notin {"KeyError", "IndexError"}

----------------------------------------------------------------------------
(* Properties of the type grammar, checked under SpecVarType *)

\* the type a written type stands for when every suffix wraps the type built
\* so far
RECURSIVE TypeOf(_)
RECURSIVE Nest(_, _)
TypeOf(written) ==
    Nest(PrimitiveType(IF written.base = "int" THEN "INT" ELSE "STR"), written.suffixes)
Nest(type, suffixes) ==
    IF suffixes = <<>> THEN type
    ELSE Nest(CASE Head(suffixes).kind = "[]" -> ArrayType(type)
                [] Head(suffixes).kind = "{}" -> SetType(type)
                [] OTHER -> MapType(TypeOf(Head(suffixes).key), type),
              Tail(suffixes))

\* C22: every suffix wraps the type built so far: the suffixes `[]`, `{}` and
\* `{K}` of a base type, read left to right, nest one Array, Set or Map (key
\* K, value the previous type) each, in that order.
C22_SuffixesNest ==
    output # <<>> => output[1].error = "none" /\ output[1].node = TypeOf(input)

\* no `{}` or `{K}` suffix comes right after another one
BracesApart(suffixes) ==
    \A i \in 1..(Len(suffixes) - 1) : suffixes[i].kind = "[]" \/ suffixes[i + 1].kind = "[]"

\* the suffixes nest as written when no two suffixes in braces are adjacent
NestsWhenBracesApart ==
    output # <<>> /\ BracesApart(input.suffixes)
        => output[1].error = "none" /\ output[1].node = TypeOf(input)

----------------------------------------------------------------------------
(* Properties of unary expressions, checked under SpecUnary *)

\* the operand that follows the first token of the statement
Operand == parse_unary_expression(input, 2)

\* the statement is the prefix operator `operator`, an operand and `;`, and
\* parses to the unary expression of that operator and operand in PRE position
StartsWith(operator) ==
    input[1] = operator /\ Operand.error = "none" /\ input[Operand.pos] = ";"
ParsesAsPrefix(operator) ==
    output[1] = Parsed(ExpressionStatementNode(
                           UnaryExpressionNode(operator, Operand.node, "PRE")),
                       Operand.pos + 1)

\* C23: unary minus is a prefix operator: `-` followed by an operand parses
\* to a unary expression with operator MINUS in PRE position, like `++`, `--`
\* and `!`.
C23_UnaryMinusIsPrefix ==
    output # <<>> /\ StartsWith("-") => ParsesAsPrefix("-")

\* `++`, `--` and `!` followed by an operand parse to a unary expression in
\* PRE position
PrefixOperatorsParse ==
    \A operator \in {"++", "--", "!"} :
        output # <<>> /\ StartsWith(operator) => ParsesAsPrefix(operator)

----------------------------------------------------------------------------
(* Properties of template types, checked under SpecTemplates *)

\* the items of a dict
ItemsOf(dict) == {dict[i] : i \in DOMAIN dict}

\* the dicts have the same keys, with equal types under each key
SameMembers(self, other) ==
    /\ {item[1] : item \in ItemsOf(self)} = {item[1] : item \in ItemsOf(other)}
    /\ \A a \in ItemsOf(self), b \in ItemsOf(other) : a[1] = b[1] => eq(a[2], b[2])

\* C26: equality of template types is structural: two templates compare equal
\* only if they declare the same attribute names with equal types and the
\* same method names with equal function types; templates that differ in the
\* number of attributes or methods are not equal.
C26_TemplateEqualityIsStructural ==
    output # <<>> /\ output[1]
        => /\ SameMembers(input[1].attributes, input[2].attributes)
           /\ SameMembers(input[1].methods, input[2].methods)

\* templates with as many attributes and as many methods as each other are
\* equal only if they declare the same ones
EqualOfSameSizeIsStructural ==
    /\ output # <<>> /\ output[1]
    /\ Len(input[1].attributes) = Len(input[2].attributes)
    /\ Len(input[1].methods) = Len(input[2].methods)
    => /\ SameMembers(input[1].attributes, input[2].attributes)
       /\ SameMembers(input[1].methods, input[2].methods)

----------------------------------------------------------------------------
(* Properties of the expression analyzer, checked under SpecExpression *)

\* an lvalue: an identifier, or an index or member access of an lvalue
RECURSIVE Lvalue(_)
Lvalue(node) ==
    CASE node.tag = "Identifier" -> TRUE
      [] node.tag = "IndexExpression" -> Lvalue(node.array)
      [] node.tag = "MemberAccessExpression" -> Lvalue(node.obj)
      [] OTHER -> FALSE

\* the expression analysed is `++` or `--` on an operand that analyses to a
\* type
StepsOperand ==
    /\ output # <<>>
    /\ input[1].tag = "UnaryExpression"
    /\ analyze_node(input[1].operand).error = "none"
Numeric(node) ==
    analyze_node(node).type \in {PrimitiveType("INT"), PrimitiveType("FLOAT")}

\* C24: `++` and `--` are accepted exactly when the operand is an lvalue (an
\* identifier, or an index or member access whose base is an lvalue) of type
\* Int or Float; an operand that is no lvalue raises 'Invalid assignment
\* target'.
C24_StepNeedsNumericLvalue ==
    StepsOperand =>
        /\ output[1].error = "none"
               <=> Lvalue(input[1].operand) /\ Numeric(input[1].operand)
        /\ ~Lvalue(input[1].operand) => output[1].error = "InvalidAssignmentTarget"

\* the same with identifiers and index expressions of them as the only
\* assignable operands
StepNeedsNumericIdentifierOrIndex ==
    StepsOperand =>
        /\ output[1].error = "none"
               <=> is_assignable(input[1].operand) /\ Numeric(input[1].operand)
        /\ ~is_assignable(input[1].operand)
               => output[1].error = "InvalidAssignmentTarget"


\* the expression analysed is an array or set literal
AnalyzedLiteral == output # <<>> /\ input[1].tag \in {"ArrayLiteral", "SetLiteral"}
ElementType(n) == analyze_node(input[1].elements[n]).type

\* C25: an array or set literal is accepted only if all its elements share
\* one type: whenever two of its elements have types that are not equal,
\* 'Invalid element type' is raised, whatever the order of the elements.
C25_UnequalElementsRejected ==
    AnalyzedLiteral =>
        ((\E m, n \in DOMAIN input[1].elements : ~eq(ElementType(m), ElementType(n)))
            => output[1].error = "InvalidElementType")

\* a literal with an element whose type is not equal to the first element's
\* is rejected
ElementUnequalToFirstRejected ==
    AnalyzedLiteral =>
        ((\E n \in DOMAIN input[1].elements : ~eq(ElementType(n), ElementType(1)))
            => output[1].error = "InvalidElementType")

----------------------------------------------------------------------------
(* If statements with a literal condition, checked under SpecBranch *)

\* C30: an if statement whose condition is a boolean literal never changes
\* the reachability of the enclosing scope: when the then block of
\* `if (true) { A }` without else ends, or the else block of
\* `if (false) { } else { B }` ends, the analysis goes on with the scopes
\* below the block's as they were, all of them reachable, however A or B
\* ended, so the statement after the if is not refused as unreachable.
C30_LiteralConditionKeepsReachable ==
    /\ [][EndsThen("true") /\ ~Top(frames).else_block =>
             /\ status' = "running"
             /\ scopes' = SubSeq(scopes, 1, Len(scopes) - 1)
             /\ is_reachable(scopes')]_vars
    /\ [][EndsElse("false") =>
             /\ status' = "running"
             /\ scopes' = SubSeq(scopes, 1, Len(scopes) - 1)
             /\ is_reachable(scopes')]_vars

\* the then block of an `if (true)` without else, inside a function
\* declaration, ended unreachable, and the function's body is reachable after it
C30_Witness ==
    /\ status = "running" /\ last.op = "CloseThen"
    /\ last.arg.cond = "true" /\ ~last.arg.reachable
    /\ Top(frames).kind = "FunctionDeclaration"
    /\ is_reachable(scopes)

----------------------------------------------------------------------------
(* The balance of scopes, checked under SpecFlow *)

\* the scopes a handler that waits for the end of a block has entered: a
\* function literal has its own scope and the scope of its body block
ScopesOf(frame) == IF IsFunctionLiteralFrame(frame) THEN 2 ELSE 1
RECURSIVE Entered(_)
Entered(fs) == IF fs = <<>> THEN 0 ELSE ScopesOf(Top(fs)) + Entered(SubSeq(fs, 1, Len(fs) - 1))
Shorter(s, t) == IF Len(s) <= Len(t) THEN Len(s) ELSE Len(t)

\* C28: scope pushes and pops are balanced: while the analysis has not
\* raised, the stack holds the global scope and the scopes of the nodes whose
\* handlers have not returned, a step of a handler changes no scope below the
\* innermost one it starts or ends in, and after the whole program only the
\* initial global scope is left.
C28_ScopesBalanced ==
    /\ [](status = "running" => Len(scopes) = 1 + Entered(frames))
    /\ [][status' \in {"running", "done"} =>
             \A i \in 1..(Shorter(scopes, scopes') - 1) : scopes'[i] = scopes[i]]_vars
    /\ [](status = "done" =>
             frames = <<>> /\ scopes = <<Scope(0, NoNode)>>)

\* a function literal among the statements of the program has been analyzed
\* to its end, and its two scopes are gone
C28_Witness ==
    /\ status = "running" /\ last.op = "CloseEchoFunctionLiteral"
    /\ Top(frames).kind = "Program"
    /\ Len(scopes) = 2

----------------------------------------------------------------------------
(* Shadowing, checked under SpecScope *)

\* the scopes of s a function-limited lookup searches that define name
VisibleDefinitions(s, name) == {i \in FunctionFloor(s)..Len(s) : DefinedIn(s, i, name)}

\* C27: variables are never shadowed: while the analysis has not raised, no
\* name is defined in more than one of the scopes a function-limited lookup
\* searches, the loop variables of range and each statements included.
C27_NoShadowing ==
    status \in {"running", "done"} =>
        \A name \in Names : Cardinality(VisibleDefinitions(scopes, name)) <= 1

\* the step defines name in the scope at position i
Defines(i, name) ==
    /\ i \in 1..Len(scopes') /\ DefinedIn(scopes', i, name)
    /\ i > Len(scopes) \/ ~DefinedIn(scopes, i, name)

\* a step other than the start of a range or each statement or of a function
\* literal defines no name that a scope below, searched by a function-limited
\* lookup from the scope of the definition, already defines
OnlyLoopsAndLiteralsShadow ==
    [][/\ status' = "running"
       /\ last'.op \notin {"RangeStatement", "EachStatement", "FunctionLiteral",
                           "EchoFunctionLiteral"}
       => \A name \in Names, i \in 1..Len(scopes') :
              Defines(i, name) =>
                  VisibleDefinitions(SubSeq(scopes', 1, i), name) = {i}]_vars

----------------------------------------------------------------------------
(* Template declarations, checked under SpecTemplate *)

\* the step is one of analyze_template_declaration for the template `name`,
\* starting or ending in the scope at position d, and does not raise
TemplateStep(name, d) ==
    /\ status' = "running" /\ last'.arg = name
    /\ \/ last'.op = "TemplateDeclaration" /\ d = Len(scopes)
       \/ last'.op = "CloseTemplateMethod" /\ d = Len(scopes) - 1

\* C29: a template declaration adds exactly one symbol to the enclosing
\* scope, the template's own name: no step of it defines another name there
\* (the names of its attributes and methods are defined in the scopes of its
\* method bodies only), and when it ends the template's name is defined there.
C29_TemplateAddsOnlyItsName ==
    [][\A name \in Names, d \in 1..Len(scopes) :
           TemplateStep(name, d) =>
               /\ \A other \in Names \ {name} :
                      scopes'[d].symbols[other] = scopes[d].symbols[other]
               /\ Len(scopes') = d => scopes'[d].symbols[name] = "template"]_vars

\* the same, with the names of the template's methods added to the enclosing
\* scope as well
TemplateAddsItsNameAndMethods ==
    [][\A name \in Names, d \in 1..Len(scopes) :
           TemplateStep(name, d) =>
               /\ \A other \in Names \ {name} :
                      \/ scopes'[d].symbols[other] = scopes[d].symbols[other]
                      \/ /\ Len(scopes') = d + 1
                         /\ other = Head(last'.methods).name
                         /\ scopes'[d].symbols[other] = "method"
               /\ Len(scopes') = d => scopes'[d].symbols[name] = "template"]_vars

====
